---- MODULE Spec2Model ----
(***************************************************************************)
(* A model of the Discord IP bot: the IP-history store (IPHistoryManager), *)
(* the check orchestration of IPDetector and the task layer of             *)
(* SchedulerManager.                                                       *)
(*                                                                         *)
(* Time is one integer clock: datetime.now() and time.time() both read it. *)
(* ISO-8601 UTC timestamps of one fixed representation order as the clock  *)
(* does, so a timestamp is modelled by the clock value it was taken at.    *)
(* The sentinel string of the source (a CJK literal meaning "cannot be     *)
(* obtained") is written "unavailable" here; Python's None is "<None>".    *)
(***************************************************************************)
EXTENDS Integers, Sequences, FiniteSets, TLC

\* ------------------------------------------------------------------ bounds
MaxChecks == 2
MaxTime == 2
MaxCorruptions == 2
MaxSamples == 3
MaxThreads == 2

\* ------------------------------------------------------------ value spaces
None == "<None>"
Sentinel == "unavailable"
NoTime == -1
Absent == "<absent>"

KnownModes == {"scheduled", "manual", "test"}
Modes == KnownModes \cup {"weekly"}

PublicIPs == {"1.2.3.4", "fe80::1a"}
LocalIPs == {"192.168.1.100"}
Candidates == PublicIPs \cup {"1.2.3.5", "FE80::1A", Sentinel, "", None}
Durations == {26}

\* Python truthiness of an optional string: None and "" are falsy.
Truthy(s) == s # None /\ s # ""

\* round(x, 2) of a duration given in milliseconds, in hundredths of a second
Round2(ms) == (ms + 5) \div 10

\* ------------------------------------------------------------------- paths
\* A path is its stem plus its final suffix; a backup suffix carries the
\* Unix time it was made at.  StorePath is a store path as the callers in
\* the repository choose it; TmpStorePath is one whose suffix is ".tmp".
StorePath == [stem |-> "ip_history", kind |-> "json", tag |-> 0]
TmpStorePath == [stem |-> "ip_history", kind |-> "tmp", tag |-> 0]
StorePaths == {StorePath, TmpStorePath}
with_suffix(p, kind, tag) == [stem |-> p.stem, kind |-> kind, tag |-> tag]

\* ----------------------------------------------------------- configuration
DefaultConfig ==
  [keep_days |-> 1, max_records |-> 2, auto_cleanup |-> TRUE,
   backup_on_corruption |-> TRUE]
ConfigSet ==
  { DefaultConfig,
    [DefaultConfig EXCEPT !.backup_on_corruption = FALSE, !.keep_days = 0],
    [DefaultConfig EXCEPT !.auto_cleanup = FALSE] }

VARIABLES
  now,          \* the wall clock
  history_file, \* IPHistoryManager.history_file, the store path
  config,       \* IPHistoryManager.config
  alive,        \* an IPHistoryManager object exists (its constructor returned)
  hd,           \* IPHistoryManager._history_data
  fs,           \* the directory of the store file: path -> content
  perm,         \* access the process has to that directory
  calls,        \* record_ip_check calls made on this store since it was fresh
  removed,      \* records removed by cleanup since it was fresh
  fresh,        \* the store object was created empty (not loaded from a file)
  corruptions,  \* how often the file or its permissions were changed from outside
  last,         \* the last store operation and what it returned
  history_manager,  \* IPDetector.history_manager is set (not None)
  legacy,       \* the legacy history file of IPDetector: a list of observations
  result,       \* what the last check_ip_with_history returned
  task,         \* what the last SchedulerManager task did
  posts,        \* notifications handed to the Discord webhook so far
  ops,          \* detector checks and scheduler tasks run so far
  threads,      \* threads inside record_ip_check of one manager: where each is
  writers,      \* processes inside save_history on one store path: where each is
  sender,       \* DiscordClient._send_message: where the call in progress is
  daemon,       \* SchedulerManager: its flags, its lock, the threads calling it
  lookup,       \* IPDetector.get_public_ip: where the call in progress is
  notice,       \* the last direct call of send_minecraft_server_notification
  update        \* what the last direct call of check_and_update returned

storeVars == <<now, history_file, config, alive, hd, fs, perm, calls, removed,
               fresh, corruptions, last>>
detectorVars == <<history_manager, legacy, result, ops>>
schedulerVars == <<task, posts>>
workerVars == <<threads, writers, sender, daemon, lookup,
                notice, update>>

\* the temporary sibling save_history writes, the backup path of time t
TempPath == with_suffix(history_file, "tmp", 0)
BackupPath(t) == with_suffix(history_file, "bak", t)

\* --------------------------------------------------------- file contents
\* A JSON value as json.dump writes it: null, true, false, a number or a
\* string; an ISO-8601 timestamp is the string of its clock value, and a key
\* the dict does not have is not written.
JNull == [t |-> "null", s |-> "", n |-> 0]
JAbsent == [t |-> "absent", s |-> "", n |-> 0]
JStr(v) == [t |-> "string", s |-> v, n |-> 0]
JNum(v) == [t |-> "number", s |-> "", n |-> v]
JBool(v) == [t |-> IF v THEN "true" ELSE "false", s |-> "", n |-> 0]
JTime(v) == [t |-> "string", s |-> "iso-8601", n |-> v]

dump_str(v) == IF v = None THEN JNull ELSE JStr(v)
dump_time(v) == IF v = NoTime THEN JNull ELSE JTime(v)
dump_key(v) == IF v = Absent THEN JAbsent ELSE JStr(v)
load_str_null_as_text(j) == IF j.t = "null" THEN "None" ELSE j.s
load_str(j) == IF j.t = "null" THEN None ELSE j.s
load_time(j) == IF j.t = "null" THEN NoTime ELSE j.n
load_key(j) == IF j.t = "absent" THEN Absent ELSE j.s

\* json.dump of the store, json.load of what it wrote
json_dump(d) ==
  [metadata |-> [created_at |-> dump_time(d.metadata.created_at),
                 last_updated |-> dump_time(d.metadata.last_updated),
                 version |-> JStr(d.metadata.version),
                 total_checks |-> JNum(d.metadata.total_checks)],
   current |-> [public_ip |-> dump_str(d.current.public_ip),
                local_ip |-> dump_str(d.current.local_ip),
                last_updated |-> dump_time(d.current.last_updated),
                last_notification_sent |->
                  dump_time(d.current.last_notification_sent)],
   statistics |-> [total_ip_changes |-> JNum(d.statistics.total_ip_changes),
                   total_notifications_sent |->
                     JNum(d.statistics.total_notifications_sent),
                   last_change_date |-> dump_time(d.statistics.last_change_date),
                   check_frequency |->
                     [m \in DOMAIN d.statistics.check_frequency |->
                        JNum(d.statistics.check_frequency[m])]],
   history |-> [i \in 1..Len(d.history) |->
                  [timestamp |-> dump_time(d.history[i].timestamp),
                   public_ip |-> dump_str(d.history[i].public_ip),
                   local_ip |-> dump_str(d.history[i].local_ip),
                   mode |-> JStr(d.history[i].mode),
                   ip_changed |-> JBool(d.history[i].ip_changed),
                   notification_sent |-> JBool(d.history[i].notification_sent),
                   execution_duration |->
                     JNum(d.history[i].execution_duration),
                   previous_public_ip |->
                     dump_key(d.history[i].previous_public_ip)]]]

json_load(j) ==
  [metadata |-> [created_at |-> load_time(j.metadata.created_at),
                 last_updated |-> load_time(j.metadata.last_updated),
                 version |-> j.metadata.version.s,
                 total_checks |-> j.metadata.total_checks.n],
   current |-> [public_ip |-> load_str(j.current.public_ip),
                local_ip |-> load_str(j.current.local_ip),
                last_updated |-> load_time(j.current.last_updated),
                last_notification_sent |->
                  load_time(j.current.last_notification_sent)],
   statistics |-> [total_ip_changes |-> j.statistics.total_ip_changes.n,
                   total_notifications_sent |->
                     j.statistics.total_notifications_sent.n,
                   last_change_date |-> load_time(j.statistics.last_change_date),
                   check_frequency |->
                     [m \in DOMAIN j.statistics.check_frequency |->
                        j.statistics.check_frequency[m].n]],
   history |-> [i \in 1..Len(j.history) |->
                  [timestamp |-> load_time(j.history[i].timestamp),
                   public_ip |-> load_str(j.history[i].public_ip),
                   local_ip |-> load_str(j.history[i].local_ip),
                   mode |-> j.history[i].mode.s,
                   ip_changed |-> j.history[i].ip_changed.t = "true",
                   notification_sent |->
                     j.history[i].notification_sent.t = "true",
                   execution_duration |-> j.history[i].execution_duration.n,
                   previous_public_ip |->
                     load_key(j.history[i].previous_public_ip)]]]

\* What a file holds: text that is not JSON (Garbage), the beginning of a
\* document whose writing was cut short (Partial), JSON without one of the
\* required top-level keys (BadShape), JSON whose metadata.total_checks is not
\* an integer (BadCount), JSON whose history is not a list (BadList), or a
\* document that passes validation.
NoDoc == [metadata |-> <<>>, current |-> <<>>, statistics |-> <<>>,
          history |-> <<>>]
Garbage == [kind |-> "garbage", doc |-> NoDoc]
Partial == [kind |-> "partial", doc |-> NoDoc]
BadShape == [kind |-> "badshape", doc |-> NoDoc]
BadCount == [kind |-> "badcount", doc |-> NoDoc]
BadList == [kind |-> "badlist", doc |-> NoDoc]
DocFile(d) == [kind |-> "doc", doc |-> json_dump(d)]

exists(p) == p \in DOMAIN fs
Backups == {p \in DOMAIN fs : p.kind = "bak"}

\* ----------------------------------------------------- IPHistoryManager
_create_initial_history_data(t) ==
  [metadata |-> [created_at |-> t, last_updated |-> t, version |-> "1.0",
                 total_checks |-> 0],
   current |-> [public_ip |-> None, local_ip |-> None, last_updated |-> NoTime,
                last_notification_sent |-> NoTime],
   statistics |-> [total_ip_changes |-> 0, total_notifications_sent |-> 0,
                   last_change_date |-> NoTime,
                   check_frequency |-> [m \in KnownModes |-> 0]],
   history |-> <<>>]

\* _validate_history_data: the exception it raises, "" for none
_validate_history_data(content) ==
  IF content.kind = "badshape" THEN "IPHistoryValidationError"
  ELSE IF content.kind = "badcount" THEN "IPHistoryValidationError"
  ELSE IF content.kind = "badlist" THEN "IPHistoryValidationError"
  ELSE ""

\* the body of load_history's try block: the exception raised in it
load_history_try(f, pm) ==
  IF pm = "none" THEN "PermissionError"
  ELSE IF history_file \notin DOMAIN f THEN "FileNotFoundError"
  ELSE IF f[history_file].kind \in {"garbage", "partial"} THEN "JSONDecodeError"
  ELSE _validate_history_data(f[history_file])

\* the except clauses of load_history, in their order: what each exception
\* leaves the function as
load_history_except(e) ==
  IF e = "JSONDecodeError" THEN "IPHistoryValidationError"
  ELSE IF e = "FileNotFoundError" THEN "IPHistoryFileError"
  ELSE IF e = "PermissionError" THEN "IPHistoryFileError"
  ELSE "IPHistoryFileError"

\* load_history: the outcome of reading and validating the store file
load_history(f, pm) ==
  LET e == load_history_try(f, pm)
  IN IF e = ""
     THEN [ok |-> TRUE, error |-> "", doc |-> json_load(f[history_file].doc)]
     ELSE [ok |-> FALSE, error |-> load_history_except(e), doc |-> NoDoc]

\* save_history: stamps metadata.last_updated, writes the temporary sibling
\* and renames it over the store path.
save_stamp(d, t) == [d EXCEPT !.metadata.last_updated = t]
save_ok(pm) == pm = "rw"
\* the exception save_history leaves with, "" for none
save_history_raises_swallowed(pm) == ""
save_history_raises(pm) == IF save_ok(pm) THEN "" ELSE "IPHistoryFileError"
open_temp(f) ==
  [p \in DOMAIN f \cup {TempPath} |-> IF p = TempPath THEN Partial ELSE f[p]]
write_temp(f, d) ==
  [p \in DOMAIN f \cup {TempPath} |-> IF p = TempPath THEN DocFile(d) ELSE f[p]]
replace_temp(f) ==
  [p \in (DOMAIN f \ {TempPath}) \cup {history_file} |->
     IF p = history_file THEN f[TempPath] ELSE f[p]]
\* the directory when save_history stops at a point: before the temporary
\* file is opened, while it is written, or before it is renamed
SavePoints == {"open", "write", "replace"}
save_interrupted_in_place(f, d, at) ==
  IF at = "open" THEN f
  ELSE [p \in DOMAIN f \cup {history_file} |->
          IF p = history_file THEN Partial ELSE f[p]]
save_interrupted(f, d, at) ==
  IF at = "open" THEN f
  ELSE IF at = "write" THEN open_temp(f)
  ELSE write_temp(f, d)
save_fs_no_replace(f, d, pm) ==
  IF save_ok(pm) THEN write_temp(f, d) ELSE f
save_fs(f, d, pm) ==
  IF save_ok(pm) THEN replace_temp(write_temp(f, d)) ELSE f

\* _backup_corrupted_file: copy2 to the sibling backup path; a failure of the
\* copy is logged and swallowed.
_backup_corrupted_file_skipped(f, t, pm) == f
_backup_corrupted_file(f, t, pm) ==
  IF pm = "rw" /\ history_file \in DOMAIN f
  THEN [p \in DOMAIN f \cup {BackupPath(t)} |->
          IF p = BackupPath(t) THEN f[history_file] ELSE f[p]]
  ELSE f

get_last_public_ip(d) ==
  IF Truthy(d.current.public_ip) /\ d.current.public_ip # Sentinel
  THEN d.current.public_ip ELSE None

\* ASCII lower-casing, on the strings of this model
Lower(s) == IF s = "FE80::1A" THEN "fe80::1a" ELSE s
has_ip_changed_nocase(d, current_public_ip) ==
  IF ~Truthy(current_public_ip) \/ current_public_ip = Sentinel THEN FALSE
  ELSE IF get_last_public_ip(d) = None THEN TRUE
  ELSE Lower(current_public_ip) # Lower(get_last_public_ip(d))
has_ip_changed_not_first(d, current_public_ip) ==
  IF ~Truthy(current_public_ip) \/ current_public_ip = Sentinel THEN FALSE
  ELSE IF get_last_public_ip(d) = None THEN FALSE
  ELSE current_public_ip # get_last_public_ip(d)
has_ip_changed_first_wins(d, current_public_ip) ==
  IF get_last_public_ip(d) = None THEN TRUE
  ELSE IF ~Truthy(current_public_ip) \/ current_public_ip = Sentinel THEN FALSE
  ELSE current_public_ip # get_last_public_ip(d)
has_ip_changed(d, current_public_ip) ==
  IF ~Truthy(current_public_ip) \/ current_public_ip = Sentinel THEN FALSE
  ELSE IF get_last_public_ip(d) = None THEN TRUE
  ELSE current_public_ip # get_last_public_ip(d)

_update_statistics_known_only(d, mode, ip_changed, notification_sent, timestamp) ==
  [d EXCEPT
     !.metadata.total_checks = IF mode \in KnownModes THEN @ + 1 ELSE @,
     !.statistics.check_frequency =
        IF mode \in DOMAIN @ THEN [@ EXCEPT ![mode] = @ + 1] ELSE @,
     !.statistics.total_ip_changes = IF ip_changed THEN @ + 1 ELSE @,
     !.statistics.last_change_date = IF ip_changed THEN timestamp ELSE @,
     !.statistics.total_notifications_sent =
        IF notification_sent THEN @ + 1 ELSE @]
_update_statistics_stamps_always(d, mode, ip_changed, notification_sent, timestamp) ==
  [d EXCEPT
     !.metadata.total_checks = @ + 1,
     !.statistics.check_frequency =
        IF mode \in DOMAIN @ THEN [@ EXCEPT ![mode] = @ + 1] ELSE @,
     !.statistics.total_ip_changes = IF ip_changed THEN @ + 1 ELSE @,
     !.statistics.last_change_date = timestamp,
     !.statistics.total_notifications_sent =
        IF notification_sent THEN @ + 1 ELSE @]
_update_statistics(d, mode, ip_changed, notification_sent, timestamp) ==
  [d EXCEPT
     !.metadata.total_checks = @ + 1,
     !.statistics.check_frequency =
        IF mode \in DOMAIN @ THEN [@ EXCEPT ![mode] = @ + 1] ELSE @,
     !.statistics.total_ip_changes = IF ip_changed THEN @ + 1 ELSE @,
     !.statistics.last_change_date = IF ip_changed THEN timestamp ELSE @,
     !.statistics.total_notifications_sent =
        IF notification_sent THEN @ + 1 ELSE @]

\* sorted(records, key=timestamp, reverse=True): a stable sort, so records of
\* equal timestamp keep their relative order.
RECURSIVE InsertDesc(_, _)
InsertDesc(r, s) ==
  IF s = <<>> THEN <<r>>
  ELSE IF Head(s).timestamp < r.timestamp THEN <<r>> \o s
  ELSE <<Head(s)>> \o InsertDesc(r, Tail(s))

RECURSIVE SortedDesc(_)
SortedDesc(s) ==
  IF s = <<>> THEN <<>>
  ELSE InsertDesc(s[Len(s)], SortedDesc(SubSeq(s, 1, Len(s) - 1)))

FilterRecent_strictly_newer(s, cutoff) ==
  SelectSeq(s, LAMBDA r : r.timestamp > cutoff)
FilterRecent(s, cutoff) == SelectSeq(s, LAMBDA r : r.timestamp >= cutoff)

\* _cleanup_old_records: the history it leaves
_cleanup_old_records_keep_first(history, keep_days, max_records, t) ==
  IF keep_days <= 0 THEN history
  ELSE LET filtered == FilterRecent(history, t - keep_days)
           capped == IF Len(filtered) > max_records
                     THEN SubSeq(filtered, 1, max_records)
                     ELSE filtered
       IN IF Len(history) - Len(capped) > 0 THEN capped ELSE history
_cleanup_old_records_age_only(history, keep_days, max_records, t) ==
  IF keep_days <= 0 THEN history
  ELSE FilterRecent(history, t - keep_days)
_cleanup_old_records_negative_only(history, keep_days, max_records, t) ==
  IF keep_days < 0 THEN history
  ELSE LET filtered == FilterRecent(history, t - keep_days)
           capped == IF Len(filtered) > max_records
                     THEN SubSeq(SortedDesc(filtered), 1, max_records)
                     ELSE filtered
       IN IF Len(history) - Len(capped) > 0 THEN capped ELSE history
_cleanup_old_records(history, keep_days, max_records, t) ==
  IF keep_days <= 0 THEN history
  ELSE LET filtered == FilterRecent(history, t - keep_days)
           capped == IF Len(filtered) > max_records
                     THEN SubSeq(SortedDesc(filtered), 1, max_records)
                     ELSE filtered
       IN IF Len(history) - Len(capped) > 0 THEN capped ELSE history

\* the history item record_ip_check builds
history_item_compared_after(d, ip_data, mode, notification_sent, execution_duration, t) ==
  LET public_ip == ip_data.public_ip
      updated == IF Truthy(public_ip) /\ public_ip # Sentinel
                 THEN [d EXCEPT !.current.public_ip = public_ip] ELSE d
      ip_changed == IF Truthy(public_ip) /\ public_ip # Sentinel
                    THEN has_ip_changed(updated, public_ip) ELSE FALSE
      previous_ip == get_last_public_ip(d)
  IN [timestamp |-> t, public_ip |-> public_ip, local_ip |-> ip_data.local_ip,
      mode |-> mode, ip_changed |-> ip_changed,
      notification_sent |-> notification_sent,
      execution_duration |-> execution_duration,
      previous_public_ip |->
        IF ip_changed /\ Truthy(previous_ip) THEN previous_ip ELSE Absent]
history_item_sent_on_change(d, ip_data, mode, notification_sent, execution_duration, t) ==
  LET public_ip == ip_data.public_ip
      ip_changed == IF Truthy(public_ip) /\ public_ip # Sentinel
                    THEN has_ip_changed(d, public_ip) ELSE FALSE
      previous_ip == get_last_public_ip(d)
  IN [timestamp |-> t, public_ip |-> public_ip, local_ip |-> ip_data.local_ip,
      mode |-> mode, ip_changed |-> ip_changed,
      notification_sent |-> ip_changed,
      execution_duration |-> execution_duration,
      previous_public_ip |->
        IF ip_changed /\ Truthy(previous_ip) THEN previous_ip ELSE Absent]
history_item(d, ip_data, mode, notification_sent, execution_duration, t) ==
  LET public_ip == ip_data.public_ip
      ip_changed == IF Truthy(public_ip) /\ public_ip # Sentinel
                    THEN has_ip_changed(d, public_ip) ELSE FALSE
      previous_ip == get_last_public_ip(d)
  IN [timestamp |-> t, public_ip |-> public_ip, local_ip |-> ip_data.local_ip,
      mode |-> mode, ip_changed |-> ip_changed,
      notification_sent |-> notification_sent,
      execution_duration |-> execution_duration,
      previous_public_ip |->
        IF ip_changed /\ Truthy(previous_ip) THEN previous_ip ELSE Absent]

\* record_ip_check up to, not including, the save: the in-memory store
record_ip_check_mem_overwrites(d, cfg, ip_data, mode, notification_sent, dur, t) ==
  LET item == history_item(d, ip_data, mode, notification_sent, dur, t)
      d1 == [d EXCEPT !.history = Append(@, item)]
      d3 == [d1 EXCEPT !.current.public_ip = ip_data.public_ip,
                       !.current.last_updated = t,
                       !.current.local_ip = ip_data.local_ip]
      d4 == IF notification_sent
            THEN [d3 EXCEPT !.current.last_notification_sent = t]
            ELSE d3
      d5 == _update_statistics(d4, mode, item.ip_changed, notification_sent, t)
      d6 == IF cfg.auto_cleanup
            THEN [d5 EXCEPT !.history =
                    _cleanup_old_records(@, cfg.keep_days, cfg.max_records, t)]
            ELSE d5
  IN d6
record_ip_check_mem_keeps_current(d, cfg, ip_data, mode, notification_sent, dur, t) ==
  LET item == history_item(d, ip_data, mode, notification_sent, dur, t)
      d1 == [d EXCEPT !.history = Append(@, item)]
      d5 == _update_statistics(d1, mode, item.ip_changed, notification_sent, t)
      d6 == IF cfg.auto_cleanup
            THEN [d5 EXCEPT !.history =
                    _cleanup_old_records(@, cfg.keep_days, cfg.max_records, t)]
            ELSE d5
  IN d6
record_ip_check_mem(d, cfg, ip_data, mode, notification_sent, dur, t) ==
  LET item == history_item(d, ip_data, mode, notification_sent, dur, t)
      d1 == [d EXCEPT !.history = Append(@, item)]
      d2 == IF Truthy(ip_data.public_ip) /\ ip_data.public_ip # Sentinel
            THEN [d1 EXCEPT !.current.public_ip = ip_data.public_ip,
                            !.current.last_updated = t]
            ELSE d1
      d3 == IF Truthy(ip_data.local_ip) /\ ip_data.local_ip # Sentinel
            THEN [d2 EXCEPT !.current.local_ip = ip_data.local_ip]
            ELSE d2
      d4 == IF notification_sent
            THEN [d3 EXCEPT !.current.last_notification_sent = t]
            ELSE d3
      d5 == _update_statistics(d4, mode, item.ip_changed, notification_sent, t)
      d6 == IF cfg.auto_cleanup
            THEN [d5 EXCEPT !.history =
                    _cleanup_old_records(@, cfg.keep_days, cfg.max_records, t)]
            ELSE d5
  IN d6

\* ------------------------------------------------------- store operations
NoOp == [op |-> "none", ok |-> TRUE, error |-> "", public_ip |-> None,
         local_ip |-> None, mode |-> "", notification_sent |-> FALSE,
         execution_duration |-> 0, count |-> 0, keep_days |-> 0,
         backed_up |-> FALSE, reset |-> FALSE]

\* record_ip_check as its caller sees it: the store mutated, then saved; a
\* failing save makes it return False with the mutations kept in memory.
\* fault is the point at which save_history meets an OSError, "" for none.
record_ip_check_with(ip_data, mode, notification_sent, dur, fault) ==
  LET mem == record_ip_check_mem(hd, config, ip_data, mode,
                                 notification_sent, Round2(dur), now)
      stamped == save_stamp(mem, now)
  IN /\ hd' = stamped
     /\ fs' = IF fault = "" THEN save_fs(fs, stamped, perm)
              ELSE IF save_ok(perm) THEN save_interrupted(fs, stamped, fault)
              ELSE fs
     /\ removed' = removed + (Len(hd.history) + 1 - Len(mem.history))
     /\ calls' = calls + 1
     /\ last' = [NoOp EXCEPT !.op = "record_ip_check",
                             !.ok = save_ok(perm) /\ fault = "",
                             !.public_ip = ip_data.public_ip,
                             !.local_ip = ip_data.local_ip,
                             !.mode = mode,
                             !.notification_sent = notification_sent,
                             !.execution_duration = Round2(dur)]

record_ip_check(ip_data, mode, notification_sent, dur) ==
  record_ip_check_with(ip_data, mode, notification_sent, dur, "")

\* IPHistoryManager.record_ip_check(ip_data, mode, notification_sent, dur)
\* called on the store directly
RecordIpCheck(ip_data, mode, notification_sent, dur) ==
  /\ alive
  /\ calls < MaxChecks
  /\ record_ip_check(ip_data, mode, notification_sent, dur)
  /\ UNCHANGED <<now, history_file, config, alive, perm, fresh, corruptions>>
  /\ UNCHANGED <<detectorVars, schedulerVars, workerVars>>

\* record_ip_check with its save_history failing at the point fault
RecordIpCheckSaveFails(ip_data, mode, notification_sent, dur, fault) ==
  /\ alive
  /\ calls < MaxChecks
  /\ record_ip_check_with(ip_data, mode, notification_sent, dur, fault)
  /\ UNCHANGED <<now, history_file, config, alive, perm, fresh, corruptions>>
  /\ UNCHANGED <<detectorVars, schedulerVars, workerVars>>

\* record_ip_check called again and again on one store
RecordInRow(ip_data, mode, notification_sent, dur) ==
  /\ alive
  /\ calls < MaxSamples
  /\ record_ip_check(ip_data, mode, notification_sent, dur)
  /\ UNCHANGED <<now, history_file, config, alive, perm, fresh, corruptions>>
  /\ UNCHANGED <<detectorVars, schedulerVars, workerVars>>

\* The process dies inside the save_history of a record_ip_check: before the
\* temporary file is opened, while it is written, before it is renamed, or
\* after the rename ("done").  hd keeps the document that was being saved.
CrashPoints == SavePoints \cup {"done"}
CrashInSave(ip_data, at) ==
  /\ alive
  /\ calls < MaxChecks
  /\ LET mem == record_ip_check_mem(hd, config, ip_data, "scheduled", TRUE,
                                    Round2(26), now)
         stamped == save_stamp(mem, now)
     IN /\ hd' = stamped
        /\ fs' = IF at = "done" THEN save_fs(fs, stamped, perm)
                 ELSE save_interrupted(fs, stamped, at)
        /\ removed' = removed + (Len(hd.history) + 1 - Len(mem.history))
  /\ calls' = calls + 1
  /\ alive' = FALSE
  /\ last' = [NoOp EXCEPT !.op = "crash", !.ok = FALSE]
  /\ UNCHANGED <<now, history_file, config, perm, fresh, corruptions>>
  /\ UNCHANGED <<detectorVars, schedulerVars, workerVars>>

\* IPHistoryManager.cleanup_old_records(keep_days); a call without argument
\* passes the configured value.  The store is not saved.
KeepDaysArgs == {-1, 0, 1}
CleanupOldRecords(keep_days) ==
  /\ alive
  /\ LET kd == keep_days
         h == _cleanup_old_records(hd.history, kd, config.max_records, now)
     IN /\ hd' = [hd EXCEPT !.history = h]
        /\ removed' = removed + (Len(hd.history) - Len(h))
        /\ last' = [NoOp EXCEPT !.op = "cleanup_old_records",
                                !.keep_days = kd,
                                !.count = Len(hd.history) - Len(h)]
  /\ UNCHANGED <<now, history_file, config, alive, fs, perm, calls, fresh,
                 corruptions>>
  /\ UNCHANGED <<detectorVars, schedulerVars, workerVars>>

\* IPHistoryManager.load_history() called on the live object
LoadHistory ==
  /\ alive
  /\ LET r == load_history(fs, perm)
     IN last' = [NoOp EXCEPT !.op = "load_history", !.ok = r.ok,
                             !.error = r.error]
  /\ UNCHANGED <<now, history_file, config, alive, hd, fs, perm, calls,
                 removed, fresh, corruptions>>
  /\ UNCHANGED <<detectorVars, schedulerVars, workerVars>>

\* IPHistoryManager.__init__ over the store path (a process start):
\* _load_or_initialize_history, with _create_initial_history saving the
\* fresh store.
Construct ==
  LET r == load_history(fs, perm)
      loaded == exists(history_file) /\ r.ok
      failed == exists(history_file) /\ ~r.ok
      fs1 == IF failed /\ config.backup_on_corruption
             THEN _backup_corrupted_file(fs, now, perm) ELSE fs
      d0 == save_stamp(_create_initial_history_data(now), now)
  IN /\ IF loaded
        THEN /\ hd' = r.doc
             /\ fs' = fs
             /\ alive' = TRUE
             /\ fresh' = FALSE
             /\ UNCHANGED <<calls, removed>>
             /\ last' = [NoOp EXCEPT !.op = "construct"]
        ELSE /\ fs' = save_fs(fs1, d0, perm)
             /\ alive' = (save_history_raises(perm) = "")
             /\ hd' = d0
             /\ fresh' = TRUE
             /\ calls' = 0
             /\ removed' = 0
             /\ last' = [NoOp EXCEPT
                           !.op = "construct",
                           !.ok = save_history_raises(perm) = "",
                           !.error = save_history_raises(perm),
                           !.reset = TRUE,
                           !.backed_up = fs1 # fs]
     /\ UNCHANGED <<now, history_file, config, perm, corruptions>>
     /\ UNCHANGED <<detectorVars, schedulerVars, workerVars>>

\* -------------------------------------------------------------- environment
Tick ==
  /\ now < MaxTime
  /\ now' = now + 1
  /\ UNCHANGED <<history_file, config, alive, hd, fs, perm, calls, removed,
                 fresh, corruptions, last>>
  /\ UNCHANGED <<detectorVars, schedulerVars, workerVars>>

\* Something other than the store overwrites or removes the store file.
TamperKinds == {"garbage", "badshape", "remove"}
ShapeKinds == TamperKinds \cup {"badcount", "badlist"}
Tampered(k) ==
  IF k = "garbage" THEN Garbage
  ELSE IF k = "badshape" THEN BadShape
  ELSE IF k = "badcount" THEN BadCount
  ELSE BadList
Tamper(k) ==
  /\ corruptions < MaxCorruptions
  /\ corruptions' = corruptions + 1
  /\ fs' = IF k = "remove"
           THEN [p \in DOMAIN fs \ {history_file} |-> fs[p]]
           ELSE [p \in DOMAIN fs \cup {history_file} |->
                   IF p = history_file
                   THEN Tampered(k)
                   ELSE fs[p]]
  /\ last' = [NoOp EXCEPT !.op = "tamper"]
  /\ UNCHANGED <<now, history_file, config, alive, hd, perm, calls, removed,
                 fresh>>
  /\ UNCHANGED <<detectorVars, schedulerVars, workerVars>>

\* The permissions of the store directory change.
Perms == {"rw", "ro", "none"}
Chmod(p) ==
  /\ p # perm
  /\ corruptions < MaxCorruptions
  /\ corruptions' = corruptions + 1
  /\ perm' = p
  /\ last' = [NoOp EXCEPT !.op = "chmod"]
  /\ UNCHANGED <<now, history_file, config, alive, hd, fs, calls, removed,
                 fresh>>
  /\ UNCHANGED <<detectorVars, schedulerVars, workerVars>>

\* ------------------------------------------------------------- IPDetector
\* What one address lookup (get_local_ip, get_public_ip) does: it returns an
\* address, raises NetworkError, or raises something else (get_public_ip lets
\* a ValueError of _is_valid_ip_format through).
Returned(ip) == [raised |-> "", value |-> ip]
Raised(e) == [raised |-> e, value |-> ""]

\* get_all_ips: only NetworkError is caught and turned into the sentinel
get_all_ips(lo, po) ==
  [raised |-> IF lo.raised \notin {"", "NetworkError"} THEN lo.raised
              ELSE IF po.raised \notin {"", "NetworkError"} THEN po.raised
              ELSE "",
   local_ip |-> IF lo.raised = "" THEN lo.value ELSE Sentinel,
   public_ip |-> IF po.raised = "" THEN po.value ELSE Sentinel,
   errors |-> (IF lo.raised = "NetworkError" THEN 1 ELSE 0)
              + (IF po.raised = "NetworkError" THEN 1 ELSE 0),
   timestamp |-> now]

\* "if mode != 'test'": whether a check in this mode is written to history
should_record_always(mode) == TRUE
should_record(mode) == mode # "test"

_should_notify_manual_on_change(mode, has_changed) ==
  IF mode = "test" THEN FALSE
  ELSE IF mode = "manual" THEN has_changed
  ELSE IF mode = "scheduled" THEN has_changed
  ELSE FALSE
_should_notify(mode, has_changed) ==
  IF mode = "test" THEN FALSE
  ELSE IF mode = "manual" THEN TRUE
  ELSE IF mode = "scheduled" THEN has_changed
  ELSE FALSE

\* the legacy history: get_last_ip_record, compare_with_last, save_ip_history
LegacyKeep == 100
LegacyObs(ips) == [local_ip |-> ips.local_ip, public_ip |-> ips.public_ip,
                   timestamp |-> ips.timestamp]
compare_with_last(hist, ips) ==
  IF hist = <<>> THEN [changed |-> TRUE, is_first_run |-> TRUE]
  ELSE [changed |-> \/ ips.local_ip # hist[Len(hist)].local_ip
                    \/ ips.public_ip # hist[Len(hist)].public_ip,
        is_first_run |-> FALSE]
save_ip_history(hist, ips) ==
  LET h == Append(hist, LegacyObs(ips))
  IN IF Len(h) > LegacyKeep THEN SubSeq(h, Len(h) - LegacyKeep + 1, Len(h))
     ELSE h

NoResult == [called |-> FALSE, local_ip |-> None, public_ip |-> None,
             has_changed |-> FALSE, should_notify |-> FALSE, mode |-> "",
             timestamp |-> NoTime, execution_duration |-> 0, error |-> "",
             warnings |-> 0, using_new_history |-> FALSE,
             lookups_failed |-> FALSE, resolved |-> None, prior_ip |-> None,
             prior_sent |-> 0]

\* IPDetector.check_ip_with_history(mode), the two lookups ending as lo and
\* po and the whole call taking dur milliseconds.  Of the result,
\* lookups_failed (both lookups raised), resolved (what get_public_ip
\* returned), prior_ip and prior_sent (the store before the call) are
\* bookkeeping of this model; the rest is the returned dict.
CheckIpWithHistory(mode, lo, po, dur) ==
  LET ips == get_all_ips(lo, po)
      book == [NoResult EXCEPT
                 !.called = TRUE, !.mode = mode, !.timestamp = now,
                 !.execution_duration = Round2(dur),
                 !.using_new_history = history_manager,
                 !.lookups_failed = lo.raised # "" /\ po.raised # "",
                 !.resolved = IF po.raised = "" THEN po.value ELSE None,
                 !.prior_ip = hd.current.public_ip,
                 !.prior_sent = hd.statistics.total_notifications_sent]
      has_new == IF Truthy(ips.public_ip) /\ ips.public_ip # Sentinel
                 THEN has_ip_changed(hd, ips.public_ip) ELSE FALSE
      has_old == compare_with_last(legacy, ips).changed
      has_changed == IF history_manager THEN has_new ELSE has_old
      should_notify == _should_notify(mode, has_changed)
      normal == [book EXCEPT
                   !.local_ip = ips.local_ip, !.public_ip = ips.public_ip,
                   !.has_changed = has_changed,
                   !.should_notify = should_notify,
                   !.warnings = IF history_manager THEN ips.errors ELSE 0]
      failed == [book EXCEPT
                   !.local_ip = Sentinel, !.public_ip = Sentinel,
                   !.error = ips.raised]
  IN /\ ops < MaxChecks
     /\ history_manager => alive
     /\ ops' = ops + 1
     /\ IF ips.raised # ""
        THEN /\ result' = failed
             /\ UNCHANGED <<hd, fs, removed, calls, last, legacy>>
        ELSE /\ result' = normal
             /\ IF history_manager /\ should_record(mode)
                THEN /\ record_ip_check([public_ip |-> ips.public_ip,
                                         local_ip |-> ips.local_ip],
                                        mode, should_notify,
                                        Round2(dur) * 10)
                     /\ UNCHANGED legacy
                ELSE /\ UNCHANGED <<hd, fs, removed, calls, last>>
                     /\ legacy' = IF ~history_manager /\ should_record(mode)
                                  THEN save_ip_history(legacy, ips)
                                  ELSE legacy
     /\ UNCHANGED <<now, history_file, config, alive, perm, fresh, corruptions,
                    history_manager, schedulerVars, workerVars>>

\* IPDetector.check_and_update: the dict it returns (its keys are exactly
\* these) and the legacy history it leaves
check_and_update(hist, lo, po) ==
  LET ips == get_all_ips(lo, po)
  IN IF ips.raised # ""
     THEN [success |-> FALSE, error |-> ips.raised, timestamp |-> now]
     ELSE [success |-> TRUE, current_ips |-> ips,
           comparison |-> compare_with_last(hist, ips),
           timestamp |-> ips.timestamp]
check_and_update_history(hist, lo, po) ==
  IF get_all_ips(lo, po).raised # "" THEN hist
  ELSE save_ip_history(hist, get_all_ips(lo, po))

\* The legacy history file as the process finds it: readable and writable,
\* not writable (open(..., "w") raises), or not readable (open(..., "r")
\* raises).  get_last_ip_record answers None when its read raises;
\* save_ip_history logs and returns when one of its opens raises.
LegacyFileStates == {"ok", "unwritable", "unreadable"}
get_last_ip_record(hist, io) ==
  IF io = "unreadable" \/ hist = <<>> THEN <<>> ELSE <<hist[Len(hist)]>>
save_ip_history_on(hist, ips, io) ==
  IF io = "ok" THEN save_ip_history(hist, ips) ELSE hist

\* check_and_update called on the detector, the legacy file being in state io
NoUpdate == [called |-> FALSE, success |-> FALSE, changed |-> FALSE,
             is_first_run |-> FALSE, local_ip |-> None, public_ip |-> None,
             timestamp |-> NoTime, error |-> ""]
CheckAndUpdate(lo, po, io) ==
  LET ips == get_all_ips(lo, po)
      comparison == compare_with_last(get_last_ip_record(legacy, io), ips)
  IN /\ ops < MaxChecks
     /\ ops' = ops + 1
     /\ IF ips.raised # ""
        THEN /\ update' = [NoUpdate EXCEPT !.called = TRUE, !.timestamp = now,
                                           !.error = ips.raised]
             /\ UNCHANGED legacy
        ELSE /\ update' = [NoUpdate EXCEPT
                             !.called = TRUE, !.success = TRUE,
                             !.changed = comparison.changed,
                             !.is_first_run = comparison.is_first_run,
                             !.local_ip = ips.local_ip,
                             !.public_ip = ips.public_ip,
                             !.timestamp = ips.timestamp]
             /\ legacy' = save_ip_history_on(legacy, ips, io)
     /\ UNCHANGED <<storeVars, history_manager, result, schedulerVars, threads,
                    writers, sender, daemon, lookup, notice>>

\* dict.get(key, default)
dict_get(d, key, default) == IF key \in DOMAIN d THEN d[key] ELSE default

\* ----------------------------------------------------------- DiscordClient
\* send_minecraft_server_notification(ip_data) over a webhook that answers wh:
\* whether a message was posted, and whether the call returned True or raised.
WebhookOutcomes == {"delivered", "WebhookError"}
send_minecraft_server_notification_sentinel_only(ip_data, wh) ==
  IF ip_data.public_ip = Sentinel
  THEN [posted |-> FALSE, raised |-> "MessageFormatError", returned |-> FALSE]
  ELSE IF wh = "delivered"
  THEN [posted |-> TRUE, raised |-> "", returned |-> TRUE]
  ELSE [posted |-> TRUE, raised |-> "WebhookError", returned |-> FALSE]
send_minecraft_server_notification(ip_data, wh) ==
  IF ~Truthy(ip_data.public_ip) \/ ip_data.public_ip = Sentinel
  THEN [posted |-> FALSE, raised |-> "MessageFormatError", returned |-> FALSE]
  ELSE IF wh = "delivered"
  THEN [posted |-> TRUE, raised |-> "", returned |-> TRUE]
  ELSE [posted |-> TRUE, raised |-> "WebhookError", returned |-> FALSE]

\* a call of send_minecraft_server_notification from outside the scheduler,
\* with any dictionary: {} and a dictionary without the key "public_ip" read
\* None for it
NoNotice == [called |-> FALSE, public_ip |-> None, posted |-> FALSE,
             raised |-> "", returned |-> FALSE]
IpDataSet == { [public_ip |-> p, local_ip |-> l] :
                 p \in PublicIPs \cup {None, "", Sentinel},
                 l \in LocalIPs \cup {None} }
Notify(ip_data, wh) ==
  /\ ops < MaxChecks
  /\ ops' = ops + 1
  /\ LET sent == send_minecraft_server_notification(ip_data, wh)
     IN /\ notice' = [called |-> TRUE, public_ip |-> ip_data.public_ip,
                      posted |-> sent.posted, raised |-> sent.raised,
                      returned |-> sent.returned]
        /\ posts' = posts + (IF sent.posted THEN 1 ELSE 0)
  /\ UNCHANGED <<storeVars, history_manager, legacy, result, task, threads,
                 writers, sender, daemon, lookup, update>>

\* the caller of check_ip_with_history delivers the notification the last
\* check asked for, over a webhook that answers wh
Deliver(wh) ==
  /\ result.called
  /\ result.should_notify
  /\ posts < MaxChecks
  /\ LET sent == send_minecraft_server_notification(
                   [public_ip |-> result.public_ip,
                    local_ip |-> result.local_ip], wh)
     IN /\ notice' = [called |-> TRUE, public_ip |-> result.public_ip,
                      posted |-> sent.posted, raised |-> sent.raised,
                      returned |-> sent.returned]
        /\ posts' = posts + (IF sent.posted THEN 1 ELSE 0)
  /\ UNCHANGED <<storeVars, detectorVars, task, threads, writers, sender,
                 daemon, lookup, update>>

\* _send_message: the loop over range(retry_attempts), one POST per pass.  A
\* response is a status code or the requests.RequestException the POST raised.
RetryAttempts == 3
Responses == {"204", "429", "400", "500", "RequestException"}
NoSender == [pc |-> "idle", retry_attempts |-> RetryAttempts, attempt |-> 0,
              posts |-> 0, log |-> <<>>, raised |-> "", sends |-> 0]

\* a call of _send_message on a client configured with n retry attempts
SendMessage(n) ==
  /\ sender.pc # "loop"
  /\ sender.sends < MaxChecks
  /\ sender' = [NoSender EXCEPT !.pc = "loop", !.retry_attempts = n,
                                  !.sends = sender.sends + 1]
  /\ UNCHANGED <<storeVars, detectorVars, schedulerVars, threads, writers,
                 daemon, lookup, notice, update>>

\* one pass of the loop: requests.post and the handling of what it gave
_send_message_pass(s, resp) ==
  LET posted == [s EXCEPT !.posts = @ + 1, !.log = Append(@, resp)]
  IN IF resp = "204" THEN [posted EXCEPT !.pc = "returned"]
     ELSE IF resp \notin {"429", "RequestException"}
     THEN [posted EXCEPT !.pc = "raised", !.raised = "WebhookError"]
     ELSE IF s.attempt + 1 < s.retry_attempts
     THEN [posted EXCEPT !.attempt = @ + 1]
     ELSE [posted EXCEPT !.attempt = @ + 1, !.pc = "raised",
                         !.raised = "WebhookError"]
SendPass(resp) ==
  /\ sender.pc = "loop"
  /\ sender' = _send_message_pass(sender, resp)
  /\ UNCHANGED <<storeVars, detectorVars, schedulerVars, threads, writers,
                 daemon, lookup, notice, update>>

\* -------------------------------------------------------- SchedulerManager
\* The task modes; the source spells them in Chinese.
TaskModes == {"scheduled", "manual", "test"}

NoTask == [mode |-> "", checked |-> FALSE, success |-> FALSE, sent |-> FALSE,
           changed |-> FALSE, public_ip |-> None, delivered |-> FALSE]

\* the send decision of _execute_ip_check: manual and test runs always want to
\* send, a scheduled run reads the key "ip_changed" of the check's result
should_send_on_change_only(mode, ip_result) ==
  dict_get(ip_result, "ip_changed", FALSE)
should_send(mode, ip_result) ==
  IF mode = "manual" \/ mode = "test" THEN TRUE
  ELSE dict_get(ip_result, "ip_changed", FALSE)

\* _execute_ip_check(mode): what it returns and what it did.  checked,
\* changed, public_ip, sent and delivered are bookkeeping of this model.
_execute_ip_check(mode, lo, po, wh) ==
  LET ip_result == check_and_update(legacy, lo, po)
      public_ip == ip_result.current_ips.public_ip
      should == should_send(mode, ip_result)
      sending == send_minecraft_server_notification(ip_result.current_ips, wh)
      base == [NoTask EXCEPT !.mode = mode, !.checked = ip_result.success]
  IN IF ~ip_result.success THEN base
     ELSE IF public_ip = Sentinel
     THEN [base EXCEPT !.changed = ip_result.comparison.changed,
                       !.public_ip = public_ip]
     ELSE IF should /\ mode # "test"
     THEN [base EXCEPT !.changed = ip_result.comparison.changed,
                       !.public_ip = public_ip,
                       !.sent = sending.posted,
                       !.delivered = sending.returned,
                       !.success = sending.raised = "" /\ sending.returned]
     ELSE [base EXCEPT !.changed = ip_result.comparison.changed,
                       !.public_ip = public_ip,
                       !.success = TRUE]

RunTask(mode, lo, po, wh) ==
  /\ ops < MaxChecks
  /\ ops' = ops + 1
  /\ task' = _execute_ip_check(mode, lo, po, wh)
  /\ posts' = posts + (IF task'.sent THEN 1 ELSE 0)
  /\ UNCHANGED <<storeVars, history_manager, result, workerVars>>

\* scheduled_task: the job the daemon runs every day
ScheduledTask(lo, po, wh) ==
  /\ RunTask("scheduled", lo, po, wh)
  /\ legacy' = check_and_update_history(legacy, lo, po)

\* manual_task
ManualTask(lo, po, wh) ==
  /\ RunTask("manual", lo, po, wh)
  /\ legacy' = check_and_update_history(legacy, lo, po)

\* test_task: after a successful run it calls check_and_update once more
TestTask(lo, po, lo2, po2, wh) ==
  /\ RunTask("test", lo, po, wh)
  /\ legacy' = IF task'.success
               THEN check_and_update_history(
                      check_and_update_history(legacy, lo, po), lo2, po2)
               ELSE check_and_update_history(legacy, lo, po)

\* ------------------------------------------------------------ concurrency
\* Threads of one process calling record_ip_check on one IPHistoryManager.
\* The manager holds no lock, so the threads interleave between the
\* statements of the method; `metadata["total_checks"] += 1` is a read of the
\* entry followed by a write of the value read plus one.
Threads == 1..MaxThreads
NoThreads ==
  [th \in Threads |-> [pc |-> "idle", total_checks |-> 0, ip_changed |-> FALSE]]

\* record_ip_check from its start to the call of _update_statistics
record_ip_check_until_statistics(d, ip_data, mode, notification_sent, dur, t) ==
  LET item == history_item(d, ip_data, mode, notification_sent, dur, t)
      d1 == [d EXCEPT !.history = Append(@, item)]
      d2 == IF Truthy(ip_data.public_ip) /\ ip_data.public_ip # Sentinel
            THEN [d1 EXCEPT !.current.public_ip = ip_data.public_ip,
                            !.current.last_updated = t]
            ELSE d1
      d3 == IF Truthy(ip_data.local_ip) /\ ip_data.local_ip # Sentinel
            THEN [d2 EXCEPT !.current.local_ip = ip_data.local_ip]
            ELSE d2
  IN IF notification_sent
     THEN [d3 EXCEPT !.current.last_notification_sent = t]
     ELSE d3

\* _update_statistics after its first statement
_update_statistics_after_total(d, mode, ip_changed, notification_sent, timestamp) ==
  [d EXCEPT
     !.statistics.check_frequency =
        IF mode \in DOMAIN @ THEN [@ EXCEPT ![mode] = @ + 1] ELSE @,
     !.statistics.total_ip_changes = IF ip_changed THEN @ + 1 ELSE @,
     !.statistics.last_change_date = IF ip_changed THEN timestamp ELSE @,
     !.statistics.total_notifications_sent =
        IF notification_sent THEN @ + 1 ELSE @]

\* a thread enters record_ip_check(ip_data, "test", False, 1.0)
ThreadCall(th, ip_data) ==
  /\ alive
  /\ threads[th].pc = "idle"
  /\ hd' = record_ip_check_until_statistics(hd, ip_data, "test", FALSE,
                                            Round2(26), now)
  /\ threads' = [threads EXCEPT ![th] =
        [pc |-> "called", total_checks |-> 0,
         ip_changed |->
           history_item(hd, ip_data, "test", FALSE, Round2(26), now).ip_changed]]
  /\ UNCHANGED <<now, history_file, config, alive, fs, perm, calls, removed,
                 fresh, corruptions, last, writers, sender, daemon, lookup,
                 notice, update>>
  /\ UNCHANGED <<detectorVars, schedulerVars>>

\* the read of metadata["total_checks"]
ThreadReadTotal(th) ==
  /\ threads[th].pc = "called"
  /\ threads' = [threads EXCEPT ![th].pc = "read",
                                ![th].total_checks = hd.metadata.total_checks]
  /\ UNCHANGED <<storeVars, detectorVars, schedulerVars, writers, sender,
                 daemon, lookup, notice, update>>

\* the write of metadata["total_checks"]
ThreadWriteTotal(th) ==
  /\ threads[th].pc = "read"
  /\ hd' = [hd EXCEPT !.metadata.total_checks = threads[th].total_checks + 1]
  /\ threads' = [threads EXCEPT ![th].pc = "counted"]
  /\ UNCHANGED <<now, history_file, config, alive, fs, perm, calls, removed,
                 fresh, corruptions, last, writers, sender, daemon, lookup,
                 notice, update>>
  /\ UNCHANGED <<detectorVars, schedulerVars>>

\* the rest of the method: the other statistics, the cleanup, the save
ThreadReturn(th) ==
  /\ threads[th].pc = "counted"
  /\ LET d5 == _update_statistics_after_total(hd, "test", threads[th].ip_changed,
                                              FALSE, now)
         d6 == IF config.auto_cleanup
               THEN [d5 EXCEPT !.history =
                       _cleanup_old_records(@, config.keep_days,
                                            config.max_records, now)]
               ELSE d5
         stamped == save_stamp(d6, now)
     IN /\ hd' = stamped
        /\ fs' = save_fs(fs, stamped, perm)
        /\ removed' = removed + (Len(hd.history) - Len(d6.history))
  /\ calls' = calls + 1
  /\ threads' = [threads EXCEPT ![th].pc = "done"]
  /\ last' = [NoOp EXCEPT !.op = "record_ip_check", !.ok = save_ok(perm),
                          !.mode = "test"]
  /\ UNCHANGED <<now, history_file, config, alive, perm, fresh, corruptions,
                 writers, sender, daemon, lookup, notice, update>>
  /\ UNCHANGED <<detectorVars, schedulerVars>>

\* Processes (a daemon and a manual run) each with its own manager over the
\* same store path, inside save_history: the temporary sibling has the same
\* name for all of them.  `at` is where the file a writer has open now is:
\* at the temporary path, at the store path (another writer renamed it), or
\* nowhere (another file was renamed over it).
Writers == {"daemon", "manual"}
NoWriters ==
  [w \in Writers |-> [pc |-> "idle", doc |-> NoDoc, at |-> "", saves |-> 0]]

\* a process loads the store file and records a check in memory
WriterCheck(w, ip_data) ==
  /\ writers[w].pc = "idle"
  /\ writers[w].saves < MaxChecks
  /\ load_history(fs, perm).ok
  /\ writers' = [writers EXCEPT
        ![w].pc = "saving",
        ![w].doc = save_stamp(record_ip_check_mem(load_history(fs, perm).doc,
                                config, ip_data, "scheduled", TRUE,
                                Round2(26), now), now)]
  /\ UNCHANGED <<storeVars, detectorVars, schedulerVars, threads, sender,
                 daemon, lookup, notice, update>>

\* open(temp_file, "w"): creates the temporary file or truncates it
WriterOpen(w) ==
  /\ writers[w].pc = "saving"
  /\ save_ok(perm)
  /\ fs' = open_temp(fs)
  /\ writers' = [writers EXCEPT ![w].pc = "opened", ![w].at = "temp"]
  /\ UNCHANGED <<now, history_file, config, alive, hd, perm, calls, removed,
                 fresh, corruptions, last, threads, sender, daemon, lookup,
                 notice, update>>
  /\ UNCHANGED <<detectorVars, schedulerVars>>

\* json.dump into the open file, and its close
WriterDump(w) ==
  /\ writers[w].pc = "opened"
  /\ fs' = IF writers[w].at = "temp" THEN write_temp(fs, writers[w].doc)
           ELSE IF writers[w].at = "store"
           THEN [fs EXCEPT ![history_file] = DocFile(writers[w].doc)]
           ELSE fs
  /\ writers' = [writers EXCEPT ![w].pc = "dumped"]
  /\ UNCHANGED <<now, history_file, config, alive, hd, perm, calls, removed,
                 fresh, corruptions, last, threads, sender, daemon, lookup,
                 notice, update>>
  /\ UNCHANGED <<detectorVars, schedulerVars>>

\* temp_file.replace(history_file); FileNotFoundError when another writer
\* has renamed the temporary file away
WriterReplace(w) ==
  /\ writers[w].pc = "dumped"
  /\ IF exists(TempPath)
     THEN /\ fs' = replace_temp(fs)
          /\ writers' = [v \in Writers |->
                [writers[v] EXCEPT
                   !.pc = IF v = w THEN "idle" ELSE @,
                   !.saves = IF v = w THEN @ + 1 ELSE @,
                   !.at = IF @ = "temp" THEN "store"
                          ELSE IF @ = "store" THEN "gone" ELSE @]]
     ELSE /\ fs' = fs
          /\ writers' = [writers EXCEPT ![w].pc = "idle", ![w].saves = @ + 1]
  /\ UNCHANGED <<now, history_file, config, alive, hd, perm, calls, removed,
                 fresh, corruptions, last, threads, sender, daemon, lookup,
                 notice, update>>
  /\ UNCHANGED <<detectorVars, schedulerVars>>

\* ---------------------------------------------------------- get_public_ip
\* get_public_ip: the loop over the services and, for each, over
\* range(retry_attempts), one GET per pass.  An answer is a 200 response whose
\* body is an address, a 200 response whose body is not one (refused by
\* _is_valid_ip_format, or making it raise ValueError), a response with
\* another status, or the requests.RequestException the GET raised.
PublicIpServices == 4
DetectorRetryAttempts == 3
Answers == {"200 address", "200 not an address", "200 malformed", "500",
            "RequestException"}
NoLookup == [pc |-> "idle", services |-> PublicIpServices,
             retry_attempts |-> DetectorRetryAttempts,
             service |-> 1, attempt |-> 0, requests |-> 0, answer |-> "",
             raised |-> "", lookups |-> 0]

\* a call of get_public_ip on a detector configured with n services and r
\* retry attempts
GetPublicIp(n, r) ==
  /\ lookup.pc # "loop"
  /\ lookup.lookups < MaxChecks
  /\ lookup' = [NoLookup EXCEPT !.pc = "loop", !.services = n,
                                !.retry_attempts = r,
                                !.lookups = lookup.lookups + 1]
  /\ UNCHANGED <<storeVars, detectorVars, schedulerVars, threads, writers,
                 sender, daemon, notice, update>>

\* the loops move on: the next attempt, the next service, or the end
get_public_ip_continue(l) ==
  IF l.attempt + 1 < l.retry_attempts THEN [l EXCEPT !.attempt = @ + 1]
  ELSE IF l.service < l.services
  THEN [l EXCEPT !.service = @ + 1, !.attempt = 0]
  ELSE [l EXCEPT !.attempt = @ + 1, !.pc = "raised",
                 !.raised = "NetworkError"]

\* one pass of the inner loop: requests.get and the handling of its answer
get_public_ip_pass(l, answer) ==
  LET asked == [l EXCEPT !.requests = @ + 1, !.answer = answer]
  IN CASE answer = "200 address" -> [asked EXCEPT !.pc = "returned"]
       [] answer = "200 malformed" ->
            [asked EXCEPT !.pc = "raised", !.raised = "ValueError"]
       [] answer \in {"200 not an address", "500"} ->
            [asked EXCEPT !.pc = "raised", !.raised = "NetworkError"]
       [] OTHER -> get_public_ip_continue(asked)
GetPass(answer) ==
  /\ lookup.pc = "loop"
  /\ lookup' = get_public_ip_pass(lookup, answer)
  /\ UNCHANGED <<storeVars, detectorVars, schedulerVars, threads, writers,
                 sender, daemon, notice, update>>

\* ----------------------------------------------------------------- daemon
\* One SchedulerManager and the threads that call _execute_ip_check on it.
\* Thread 1 is the main thread: it runs the loop of start_daemon, and the
\* handler of SIGINT and SIGTERM runs on its stack, so while the handler runs
\* the main thread does nothing else.  The other threads call manual_task or
\* test_task on the same object.
MainThread == 1
NoDaemon == [is_running |-> FALSE, is_executing |-> FALSE, lock |-> 0,
             pc |-> [th \in Threads |-> "idle"],
             end |-> [th \in Threads |-> ""],
             handler |-> "none", jobs |-> FALSE, runs |-> 0]

\* the thread can take a step: the process lives, and the main thread is
\* not underneath the signal handler
Runs(th) ==
  /\ daemon.handler # "exited"
  /\ th = MainThread => daemon.handler = "none"

\* start_daemon up to its loop
StartDaemon ==
  /\ daemon.handler = "none"
  /\ ~daemon.is_running
  /\ ~daemon.jobs
  /\ daemon.pc[MainThread] = "idle"
  /\ daemon' = [daemon EXCEPT !.is_running = TRUE, !.jobs = TRUE]
  /\ UNCHANGED <<storeVars, detectorVars, schedulerVars, threads, writers,
                 sender, lookup, notice, update>>

\* a call of _execute_ip_check arrives at `with self.execution_lock`; the
\* main thread calls it from schedule.run_pending inside the loop
EnterCheck(th) ==
  /\ Runs(th)
  /\ daemon.pc[th] = "idle"
  /\ daemon.runs < MaxChecks
  /\ th = MainThread => daemon.is_running /\ daemon.jobs
  /\ daemon' = [daemon EXCEPT !.pc[th] = "waiting", !.end[th] = "",
                              !.runs = @ + 1]
  /\ UNCHANGED <<storeVars, detectorVars, schedulerVars, threads, writers,
                 sender, lookup, notice, update>>

\* threading.Lock.acquire: only a free lock is taken
acquire(d, th) ==
  IF d.lock = 0 THEN [d EXCEPT !.lock = th, !.pc[th] = "locked"] ELSE d
AcquireLock(th) ==
  /\ Runs(th)
  /\ daemon.pc[th] = "waiting"
  /\ acquire(daemon, th) # daemon
  /\ daemon' = acquire(daemon, th)
  /\ UNCHANGED <<storeVars, detectorVars, schedulerVars, threads, writers,
                 sender, lookup, notice, update>>

\* self.is_executing = True
SetExecuting(th) ==
  /\ Runs(th)
  /\ daemon.pc[th] = "locked"
  /\ daemon' = [daemon EXCEPT !.is_executing = TRUE, !.pc[th] = "body"]
  /\ UNCHANGED <<storeVars, detectorVars, schedulerVars, threads, writers,
                 sender, lookup, notice, update>>

\* the try block ends: at its last statement, at one of its `return False`,
\* or in the except clause
BodyEnds == {"return", "early return", "exception"}
EndBody(th, how) ==
  /\ Runs(th)
  /\ daemon.pc[th] = "body"
  /\ daemon' = [daemon EXCEPT !.pc[th] = "finally", !.end[th] = how]
  /\ UNCHANGED <<storeVars, detectorVars, schedulerVars, threads, writers,
                 sender, lookup, notice, update>>

\* finally: self.is_executing = False
finally_on_return(d, th) ==
  [d EXCEPT !.is_executing = IF d.end[th] = "return" THEN FALSE ELSE @,
            !.pc[th] = "release"]
finally(d, th) == [d EXCEPT !.is_executing = FALSE, !.pc[th] = "release"]
Finally(th) ==
  /\ Runs(th)
  /\ daemon.pc[th] = "finally"
  /\ daemon' = finally(daemon, th)
  /\ UNCHANGED <<storeVars, detectorVars, schedulerVars, threads, writers,
                 sender, lookup, notice, update>>

\* the with statement releases the lock and the call is over
ReleaseLock(th) ==
  /\ Runs(th)
  /\ daemon.pc[th] = "release"
  /\ daemon' = [daemon EXCEPT !.lock = 0, !.pc[th] = "idle"]
  /\ UNCHANGED <<storeVars, detectorVars, schedulerVars, threads, writers,
                 sender, lookup, notice, update>>

\* SIGINT or SIGTERM while the loop runs: signal_handler calls stop(), which
\* clears is_running and then waits for is_executing to become false
Signal ==
  /\ daemon.handler = "none"
  /\ daemon.is_running
  /\ daemon' = [daemon EXCEPT !.handler = "stop", !.is_running = FALSE]
  /\ UNCHANGED <<storeVars, detectorVars, schedulerVars, threads, writers,
                 sender, lookup, notice, update>>

\* stop() past its wait: schedule.clear(), return, sys.exit(0)
StopReturns ==
  /\ daemon.handler = "stop"
  /\ ~daemon.is_executing
  /\ daemon' = [daemon EXCEPT !.handler = "exited", !.jobs = FALSE]
  /\ UNCHANGED <<storeVars, detectorVars, schedulerVars, threads, writers,
                 sender, lookup, notice, update>>

\* ---------------------------------------------------------- specifications
vars == <<storeVars, detectorVars, schedulerVars, workerVars>>

\* The state after IPHistoryManager(history_file, config) over a directory
\* that holds no store file yet.
Init ==
  /\ now = 0
  /\ history_file = StorePath
  /\ config \in ConfigSet
  /\ alive = TRUE
  /\ hd = _create_initial_history_data(0)
  /\ fs = [p \in {history_file} |-> DocFile(_create_initial_history_data(0))]
  /\ perm = "rw"
  /\ calls = 0
  /\ removed = 0
  /\ fresh = TRUE
  /\ corruptions = 0
  /\ last = NoOp
  /\ history_manager = TRUE
  /\ legacy = <<>>
  /\ result = NoResult
  /\ task = NoTask
  /\ posts = 0
  /\ ops = 0
  /\ threads = NoThreads
  /\ writers = NoWriters
  /\ sender = NoSender
  /\ daemon = NoDaemon
  /\ lookup = NoLookup
  /\ notice = NoNotice
  /\ update = NoUpdate

\* The observations and call arguments the store operations are driven with.
Obs(pub, loc) == [public_ip |-> pub, local_ip |-> loc]
ObsSet == { Obs("1.2.3.4", "192.168.1.100"), Obs("fe80::1a", Sentinel),
            Obs(Sentinel, "192.168.1.100") }
ModeSent == { <<"scheduled", TRUE>>, <<"test", FALSE>>, <<"weekly", FALSE>> }

DoRecordIpCheck ==
  \E ip_data \in ObsSet, ms \in ModeSent, dur \in Durations :
    RecordIpCheck(ip_data, ms[1], ms[2], dur)
DoCleanupOldRecords ==
  \E kd \in KeepDaysArgs \cup {config.keep_days} : CleanupOldRecords(kd)
DoTamper == \E k \in TamperKinds : Tamper(k)
DoChmod == \E p \in Perms : Chmod(p)

\* The store in one process: checks recorded, cleanups, time passing.
Next ==
  \/ Tick
  \/ DoRecordIpCheck
  \/ DoCleanupOldRecords

Spec == Init /\ [][Next]_vars

\* The store across process starts, with the file tampered with in between.
RecordSample ==
  \E ip_data \in {Obs("1.2.3.4", "192.168.1.100"), Obs(Sentinel, Sentinel)} :
    RecordIpCheck(ip_data, "scheduled", TRUE, 26)

NextRecovery ==
  \/ Tick
  \/ RecordSample
  \/ LoadHistory
  \/ Construct
  \/ DoTamper

SpecRecovery == Init /\ [][NextRecovery]_vars

\* The store under input/output faults: the permissions of its directory
\* change, a save meets an OSError part-way, the file is replaced by every
\* kind of content load_history rejects.
InitIO ==
  /\ Init
  /\ config = DefaultConfig

RecordSampleSaveFails ==
  \E fault \in SavePoints :
    RecordIpCheckSaveFails(Obs("1.2.3.4", "192.168.1.100"), "scheduled", TRUE,
                           26, fault)
DoTamperShape == \E k \in ShapeKinds : Tamper(k)

NextIO ==
  \/ RecordSample
  \/ RecordSampleSaveFails
  \/ LoadHistory
  \/ Construct
  \/ DoTamperShape
  \/ DoChmod

SpecIO == InitIO /\ [][NextIO]_vars

\* The store across crashes: the process dies inside a save and is started
\* again, over either store path.
InitCrash ==
  /\ now = 0
  /\ history_file \in StorePaths
  /\ config = DefaultConfig
  /\ alive = TRUE
  /\ hd = _create_initial_history_data(0)
  /\ fs = [p \in {history_file} |-> DocFile(_create_initial_history_data(0))]
  /\ perm = "rw"
  /\ calls = 0
  /\ removed = 0
  /\ fresh = TRUE
  /\ corruptions = 0
  /\ last = NoOp
  /\ history_manager = TRUE
  /\ legacy = <<>>
  /\ result = NoResult
  /\ task = NoTask
  /\ posts = 0
  /\ ops = 0
  /\ threads = NoThreads
  /\ writers = NoWriters
  /\ sender = NoSender
  /\ daemon = NoDaemon
  /\ lookup = NoLookup
  /\ notice = NoNotice
  /\ update = NoUpdate

DoCrashInSave ==
  \E ip_data \in {Obs("1.2.3.4", "192.168.1.100"), Obs("fe80::1a", Sentinel)},
     at \in CrashPoints :
    CrashInSave(ip_data, at)

NextCrash ==
  \/ Tick
  \/ RecordSample
  \/ DoCrashInSave
  \/ Construct

SpecCrash == InitCrash /\ [][NextCrash]_vars

\* The store in one process with several checks recorded in a row and
\* cleanups called in between.
RecordSampleInRow ==
  \E ip_data \in {Obs("1.2.3.4", "192.168.1.100"), Obs("fe80::1a", Sentinel)} :
    RecordInRow(ip_data, "scheduled", TRUE, 26)

NextCleanup ==
  \/ Tick
  \/ RecordSampleInRow
  \/ DoCleanupOldRecords

SpecCleanup == Init /\ [][NextCleanup]_vars

\* The store and its bookkeeping: checks of every mode and outcome recorded
\* in a row, on a store created empty or loaded from a well-formed file whose
\* current public IP is not an address.
StatConfigs == {DefaultConfig, [DefaultConfig EXCEPT !.auto_cleanup = FALSE]}
LoadedStores ==
  { [_create_initial_history_data(0) EXCEPT !.current.public_ip = ip] :
      ip \in {Sentinel, ""} }
InitStats ==
  /\ now = 0
  /\ history_file = StorePath
  /\ config \in StatConfigs
  /\ alive = TRUE
  /\ hd \in {_create_initial_history_data(0)} \cup
             (IF config.auto_cleanup THEN {} ELSE LoadedStores)
  /\ fs = [p \in {history_file} |-> DocFile(hd)]
  /\ perm = "rw"
  /\ calls = 0
  /\ removed = 0
  /\ fresh = (hd = _create_initial_history_data(0))
  /\ corruptions = 0
  /\ last = NoOp
  /\ history_manager = TRUE
  /\ legacy = <<>>
  /\ result = NoResult
  /\ task = NoTask
  /\ posts = 0
  /\ ops = 0
  /\ threads = NoThreads
  /\ writers = NoWriters
  /\ sender = NoSender
  /\ daemon = NoDaemon
  /\ lookup = NoLookup
  /\ notice = NoNotice
  /\ update = NoUpdate

\* the calls the store is driven with: observation, mode, notification_sent
StatCalls ==
  { <<Obs("1.2.3.4", "192.168.1.100"), "scheduled", TRUE>>,
    <<Obs("1.2.3.4", "192.168.1.100"), "weekly", FALSE>>,
    <<Obs("fe80::1a", Sentinel), "scheduled", FALSE>>,
    <<Obs("fe80::1a", Sentinel), "manual", TRUE>>,
    <<Obs(Sentinel, "192.168.1.100"), "test", FALSE>>,
    <<Obs("", ""), "manual", TRUE>> }
RecordStat ==
  \E c \in StatCalls : RecordInRow(c[1], c[2], c[3], 26)

NextStats ==
  \/ Tick
  \/ RecordStat

SpecStats == InitStats /\ [][NextStats]_vars

\* Threads calling record_ip_check on one manager at once.
DoThreadCall ==
  \E th \in Threads,
     ip_data \in {Obs("1.2.3.4", "192.168.1.100"), Obs("fe80::1a", Sentinel)} :
    ThreadCall(th, ip_data)
DoThreadReadTotal == \E th \in Threads : ThreadReadTotal(th)
DoThreadWriteTotal == \E th \in Threads : ThreadWriteTotal(th)
DoThreadReturn == \E th \in Threads : ThreadReturn(th)

NextThreads ==
  \/ Tick
  \/ DoThreadCall
  \/ DoThreadReadTotal
  \/ DoThreadWriteTotal
  \/ DoThreadReturn

SpecThreads == InitIO /\ [][NextThreads]_vars

\* Two processes saving to one store path at once.
DoWriterCheck ==
  \E w \in Writers,
     ip_data \in {Obs("1.2.3.4", "192.168.1.100"), Obs("fe80::1a", Sentinel)} :
    WriterCheck(w, ip_data)
DoWriterOpen == \E w \in Writers : WriterOpen(w)
DoWriterDump == \E w \in Writers : WriterDump(w)
DoWriterReplace == \E w \in Writers : WriterReplace(w)

NextWriters ==
  \/ DoWriterCheck
  \/ DoWriterOpen
  \/ DoWriterDump
  \/ DoWriterReplace

SpecWriters == InitIO /\ [][NextWriters]_vars

\* The daemon, the callers of its check and the signal.  Every thread that
\* can take a step of a check eventually takes it, and so does the handler.
DoEnterCheck == \E th \in Threads : EnterCheck(th)
DoAcquireLock == \E th \in Threads : AcquireLock(th)
DoSetExecuting == \E th \in Threads : SetExecuting(th)
DoEndBody == \E th \in Threads, how \in BodyEnds : EndBody(th, how)
DoFinally == \E th \in Threads : Finally(th)
DoReleaseLock == \E th \in Threads : ReleaseLock(th)

NextDaemon ==
  \/ StartDaemon
  \/ DoEnterCheck
  \/ DoAcquireLock
  \/ DoSetExecuting
  \/ DoEndBody
  \/ DoFinally
  \/ DoReleaseLock
  \/ Signal
  \/ StopReturns

FairDaemon ==
  /\ \A th \in Threads :
       /\ WF_vars(AcquireLock(th))
       /\ WF_vars(SetExecuting(th))
       /\ WF_vars(\E how \in BodyEnds : EndBody(th, how))
       /\ WF_vars(Finally(th))
       /\ WF_vars(ReleaseLock(th))
  /\ WF_vars(StopReturns)

SpecDaemon == InitIO /\ [][NextDaemon]_vars /\ FairDaemon

\* The public address lookup, under every number of services and of retry
\* attempts up to the defaults.
DoGetPublicIp ==
  \E n \in 1..PublicIpServices, r \in 1..DetectorRetryAttempts : GetPublicIp(n, r)
DoGetPass == \E answer \in Answers : GetPass(answer)

NextLookup ==
  \/ DoGetPublicIp
  \/ DoGetPass

SpecLookup == InitIO /\ [][NextLookup]_vars

\* The webhook client sending messages, under every configured number of
\* retry attempts up to the default.
DoSendMessage == \E n \in 1..RetryAttempts : SendMessage(n)
DoSendPass == \E resp \in Responses : SendPass(resp)

NextWebhook ==
  \/ DoSendMessage
  \/ DoSendPass

SpecWebhook == InitIO /\ [][NextWebhook]_vars

\* The detector over its store: checks in every mode, lookups that succeed,
\* fail or break, time passing.
LocalOutcomes == {Returned("192.168.1.100"), Raised("NetworkError")}
PublicOutcomes == {Returned(ip) : ip \in PublicIPs}
                    \cup {Raised("NetworkError"), Raised("ValueError")}

\* IPDetector() builds its store with the detector's own config, which sets
\* none of the store's options; the store may have failed to come up, and then
\* the detector runs on its legacy history.
InitDetector ==
  /\ now = 0
  /\ history_file = StorePath
  /\ config = DefaultConfig
  /\ alive = TRUE
  /\ hd = _create_initial_history_data(0)
  /\ fs = [p \in {history_file} |-> DocFile(_create_initial_history_data(0))]
  /\ perm = "rw"
  /\ calls = 0
  /\ removed = 0
  /\ fresh = TRUE
  /\ corruptions = 0
  /\ last = NoOp
  /\ history_manager \in BOOLEAN
  /\ legacy = <<>>
  /\ result = NoResult
  /\ task = NoTask
  /\ posts = 0
  /\ ops = 0
  /\ threads = NoThreads
  /\ writers = NoWriters
  /\ sender = NoSender
  /\ daemon = NoDaemon
  /\ lookup = NoLookup
  /\ notice = NoNotice
  /\ update = NoUpdate

DoCheckIpWithHistory ==
  \E mode \in Modes, lo \in LocalOutcomes, po \in PublicOutcomes,
     dur \in Durations :
    CheckIpWithHistory(mode, lo, po, dur)

NextDetector ==
  \/ Tick
  \/ DoCheckIpWithHistory

SpecDetector == InitDetector /\ [][NextDetector]_vars

\* The scheduler's three tasks over the detector's legacy history.
DoScheduledTask ==
  \E lo \in LocalOutcomes, po \in PublicOutcomes, wh \in WebhookOutcomes :
    ScheduledTask(lo, po, wh)
DoManualTask ==
  \E lo \in LocalOutcomes, po \in PublicOutcomes, wh \in WebhookOutcomes :
    ManualTask(lo, po, wh)
DoTestTask ==
  \E lo \in LocalOutcomes, po \in PublicOutcomes, lo2 \in LocalOutcomes,
     po2 \in PublicOutcomes, wh \in WebhookOutcomes :
    TestTask(lo, po, lo2, po2, wh)

NextScheduler ==
  \/ DoScheduledTask
  \/ DoManualTask
  \/ DoTestTask

SpecScheduler == InitDetector /\ [][NextScheduler]_vars

\* Checks and the delivery of their notifications, on a store created empty
\* or loaded from the file an earlier run left after a scheduled check that
\* found a new address.
StoresAfterChange ==
  { save_stamp(
      record_ip_check_mem(_create_initial_history_data(0), DefaultConfig,
                          [public_ip |-> ip, local_ip |-> "192.168.1.100"],
                          "scheduled", TRUE, Round2(Round2(26) * 10), 0), 0) :
      ip \in PublicIPs }
InitRearm ==
  /\ now = 0
  /\ history_file = StorePath
  /\ config = DefaultConfig
  /\ alive = TRUE
  /\ hd \in {_create_initial_history_data(0)} \cup StoresAfterChange
  /\ fs = [p \in {history_file} |-> DocFile(hd)]
  /\ perm = "rw"
  /\ calls = 0
  /\ removed = 0
  /\ fresh = (hd = _create_initial_history_data(0))
  /\ corruptions = 0
  /\ last = NoOp
  /\ history_manager = TRUE
  /\ legacy = <<>>
  /\ result = NoResult
  /\ task = NoTask
  /\ posts = 0
  /\ ops = 0
  /\ threads = NoThreads
  /\ writers = NoWriters
  /\ sender = NoSender
  /\ daemon = NoDaemon
  /\ lookup = NoLookup
  /\ notice = NoNotice
  /\ update = NoUpdate

DoDeliver == \E wh \in WebhookOutcomes : Deliver(wh)

NextRearm ==
  \/ DoCheckIpWithHistory
  \/ DoDeliver

SpecRearm == InitRearm /\ [][NextRearm]_vars

\* check_and_update called again and again, the legacy file readable and
\* writable or not.
DoCheckAndUpdate ==
  \E lo \in LocalOutcomes, po \in PublicOutcomes, io \in LegacyFileStates :
    CheckAndUpdate(lo, po, io)

NextLegacy ==
  \/ Tick
  \/ DoCheckAndUpdate

SpecLegacy == InitDetector /\ [][NextLegacy]_vars

\* The scheduler's tasks and direct calls of the notification method.
DoNotify == \E ip_data \in IpDataSet, wh \in WebhookOutcomes : Notify(ip_data, wh)

NextNotify ==
  \/ DoScheduledTask
  \/ DoManualTask
  \/ DoTestTask
  \/ DoNotify

SpecNotify == InitDetector /\ [][NextNotify]_vars

\* ------------------------------------------------------------------ claims
NonSentinel(ip) == Truthy(ip) /\ ip # Sentinel

\* C1: on a store created empty, after any sequence of record_ip_check calls
\* metadata.total_checks equals the number of calls made, and the history is
\* as long as total_checks minus the records cleanup has removed.
C1_TotalChecksCountCalls ==
  fresh => /\ hd.metadata.total_checks = calls
           /\ Len(hd.history) = hd.metadata.total_checks - removed
C1_Witness ==
  /\ fresh
  /\ calls >= 2
  /\ removed >= 1
  /\ Len(hd.history) = calls - removed

\* C2: with no public IP recorded, has_ip_changed is true for every non-empty
\* non-sentinel candidate; right after a successful record_ip_check of a
\* non-sentinel public IP P it is false for P and true for every other
\* non-empty non-sentinel candidate, P in another letter case included.
C2_HasIpChangedAgainstRecorded ==
  /\ hd.current.public_ip = None =>
       \A q \in Candidates : NonSentinel(q) => has_ip_changed(hd, q)
  /\ (last.op = "record_ip_check" /\ last.ok /\ NonSentinel(last.public_ip)) =>
       \A q \in Candidates :
         NonSentinel(q) => (has_ip_changed(hd, q) <=> q # last.public_ip)
C2_Witness ==
  /\ last.op = "record_ip_check"
  /\ last.ok
  /\ last.public_ip = "fe80::1a"
  /\ ~has_ip_changed(hd, "fe80::1a")
  /\ has_ip_changed(hd, "FE80::1A")
  /\ has_ip_changed(hd, "1.2.3.4")

\* C3: the should_notify a check returns is a function of its mode and its
\* has_changed alone: false in mode test, true in mode manual (changed or
\* not), has_changed in mode scheduled, false in any other mode.
PolicyTable(mode, has_changed) ==
  CASE mode = "test" -> FALSE
    [] mode = "manual" -> TRUE
    [] mode = "scheduled" -> has_changed
    [] OTHER -> FALSE
C3_PolicyTable ==
  (result.called /\ result.error = "") =>
    result.should_notify = PolicyTable(result.mode, result.has_changed)
C3_Witness ==
  /\ result.called
  /\ result.error = ""
  /\ result.mode = "manual"
  /\ ~result.has_changed
  /\ result.should_notify
  /\ result.prior_ip = result.public_ip

\* C4: on a detector with a store, a scheduled check returns has_changed and
\* should_notify true exactly when it resolved a public IP and that IP differs
\* from the store's current public IP before the call, or none was recorded;
\* when the resolved IP equals the current one, both are false and
\* total_notifications_sent stays as it was.
C4_ScheduledChange ==
  (result.called /\ result.using_new_history /\ result.mode = "scheduled") =>
    LET differs == /\ result.resolved # None
                   /\ \/ result.prior_ip = None
                      \/ result.resolved # result.prior_ip
    IN /\ result.has_changed <=> differs
       /\ result.should_notify <=> differs
       /\ result.resolved = result.prior_ip /\ result.resolved # None =>
            /\ ~result.has_changed
            /\ ~result.should_notify
            /\ hd.statistics.total_notifications_sent = result.prior_sent
C4_Witness ==
  /\ result.called
  /\ result.using_new_history
  /\ result.mode = "scheduled"
  /\ result.resolved = "1.2.3.4"
  /\ result.prior_ip = "1.2.3.4"
  /\ ~result.should_notify
  /\ hd.statistics.total_notifications_sent = 1

\* C5: a scheduled task that obtained a public IP sends a notification if and
\* only if its IP check reported a change against the last record (the first
\* check ever counts as a change).
C5_ScheduledSendsIffChanged ==
  (task.mode = "scheduled" /\ task.checked /\ NonSentinel(task.public_ip)) =>
    (task.sent <=> task.changed)

\* C6: a manual task sends a notification whenever it obtained a non-sentinel
\* public IP, changed or not; a test task never sends one.
C6_ManualSendsTestNever ==
  /\ (task.mode = "manual" /\ task.checked /\ NonSentinel(task.public_ip)) =>
       task.sent
  /\ task.mode = "test" => ~task.sent
C6_Witness ==
  /\ task.mode = "manual"
  /\ task.checked
  /\ NonSentinel(task.public_ip)
  /\ ~task.changed
  /\ task.sent
  /\ posts >= 1

\* C7: a check whose two lookups both failed returns the sentinel for both
\* addresses, a non-empty error, has_changed false and should_notify false,
\* in every mode.
C7_FailedLookupsGiveErrorResult ==
  (result.called /\ result.lookups_failed) =>
    /\ result.local_ip = Sentinel
    /\ result.public_ip = Sentinel
    /\ result.error # ""
    /\ ~result.has_changed
    /\ ~result.should_notify

\* C8: a check in mode test leaves the store and its file as they were and
\* calls record_ip_check not at all; a check in any other mode calls it
\* exactly once, with the observation, the mode, the should_notify it computed
\* and the duration it measured.
CheckStep == ops' = ops + 1
RecordedAsReturned ==
  /\ calls' = calls + 1
  /\ last'.op = "record_ip_check"
  /\ last'.public_ip = result'.public_ip
  /\ last'.local_ip = result'.local_ip
  /\ last'.mode = result'.mode
  /\ last'.notification_sent = result'.should_notify
  /\ last'.execution_duration = result'.execution_duration
TestLeavesStore == hd' = hd /\ fs' = fs /\ calls' = calls
IsEmptyStore(d) ==
  /\ d.metadata.version = "1.0"
  /\ d.metadata.total_checks = 0
  /\ d.statistics.total_ip_changes = 0
  /\ d.statistics.total_notifications_sent = 0
  /\ \A m \in KnownModes : d.statistics.check_frequency[m] = 0
  /\ d.current.public_ip = None
  /\ d.history = <<>>
BackupsOf(f) == {p \in DOMAIN f : p.kind = "bak"}
C9_CorruptionHealsWithOneBackup ==
  [][/\ (Construct /\ config.backup_on_corruption /\ exists(history_file)
           /\ fs[history_file].kind = "garbage") =>
          /\ alive'
          /\ IsEmptyStore(hd')
          /\ load_history(fs', perm').ok
          /\ fs'[history_file] = DocFile(hd')
          /\ Cardinality(BackupsOf(fs') \ BackupsOf(fs)) <= 1
          /\ BackupsOf(fs) = {} => Cardinality(BackupsOf(fs')) = 1
          /\ \E b \in BackupsOf(fs') :
               /\ b # history_file
               /\ b.stem = history_file.stem
               /\ fs'[b] = Garbage
     /\ ((Construct \/ LoadHistory) /\ exists(history_file)
           /\ fs[history_file].kind = "doc") =>
          BackupsOf(fs') = BackupsOf(fs)]_vars
C9_Witness ==
  /\ last.op = "construct"
  /\ last.reset
  /\ last.backed_up
  /\ config.backup_on_corruption
  /\ alive
  /\ IsEmptyStore(hd)
  /\ Cardinality(Backups) = 1
  /\ \E b \in Backups : fs[b] = Garbage
  /\ fs[history_file] = DocFile(hd)

\* C10: a malformed file never makes the construction of the store fail, and
\* whenever construction resets the store because loading failed, the file's
\* previous content is in a backup file once the store path holds the fresh
\* store.
Malformed == exists(history_file) /\ ~load_history(fs, perm).ok
PreservedInBackup ==
  \E b \in BackupsOf(fs') : b # history_file /\ fs'[b] = fs[history_file]
C11_LoadHistoryErrorKinds ==
  [][LoadHistory =>
       /\ (perm = "none" \/ ~exists(history_file)) =>
            last'.error = "IPHistoryFileError"
       /\ (perm # "none" /\ exists(history_file)
             /\ fs[history_file].kind \in {"badshape", "badcount", "badlist"}) =>
            last'.error = "IPHistoryValidationError"]_vars

\* C12: when the process dies at any point of a save_history, the file at the
\* store path holds the whole previous document or the whole new one.
C12_CrashLeavesWholeDocument ==
  [][(last'.op = "crash" /\ calls' = calls + 1) =>
       /\ history_file \in DOMAIN fs'
       /\ \/ fs'[history_file] = fs[history_file]
          \/ fs'[history_file] = DocFile(hd')]_vars

C14_ConstructionSurfacesWriteFailure ==
  [][/\ (Construct /\ perm = "none") =>
          ~alive' /\ ~last'.ok /\ last'.error = "IPHistoryFileError"
     /\ (Construct /\ perm # "rw" /\ ~load_history(fs, perm).ok) =>
          ~alive' /\ ~last'.ok /\ last'.error = "IPHistoryFileError"]_vars
C14_Witness ==
  /\ last.op = "construct"
  /\ last.error = "IPHistoryFileError"
  /\ ~alive
  /\ perm = "none"
  /\ exists(history_file)
  /\ fs[history_file].kind = "doc"

\* C15: after every successful operation that changes the store
\* (record_ip_check, and cleanup_old_records when it removes records) the
\* file holds the store as it is in memory.
C15_FileEqualsMemoryAfterMutation ==
  (/\ alive
   /\ last.ok
   /\ \/ last.op = "record_ip_check"
      \/ last.op = "cleanup_old_records" /\ last.count > 0) =>
    /\ exists(history_file)
    /\ fs[history_file] = DocFile(hd)

\* C16: load_history after a save returns the store that was saved; saving
\* what was loaded writes the same file again but for metadata.last_updated;
\* and a manager constructed over the file a manager has just written sees
\* the same current public IP, total_checks and history.
SavedAgain(t) ==
  save_fs(fs', save_stamp(load_history(fs', perm').doc, t), perm')[history_file]
SameButLastUpdated(a, b) ==
  /\ a.kind = b.kind
  /\ [a.doc EXCEPT !.metadata.last_updated = b.doc.metadata.last_updated] = b.doc
C16_SaveLoadRoundTrip ==
  [][/\ (last'.op = "record_ip_check" /\ calls' = calls + 1 /\ last'.ok) =>
          /\ load_history(fs', perm').ok
          /\ load_history(fs', perm').doc = hd'
          /\ \A t \in 0..(MaxTime + 1) :
               SameButLastUpdated(SavedAgain(t), fs'[history_file])
     /\ (Construct /\ last.op = "record_ip_check" /\ last.ok) =>
          /\ alive'
          /\ hd'.current.public_ip = hd.current.public_ip
          /\ hd'.metadata.total_checks = hd.metadata.total_checks
          /\ hd'.history = hd.history
          /\ hd' = hd]_vars
C16_Witness ==
  /\ last.op = "construct"
  /\ ~last.reset
  /\ alive
  /\ ~fresh
  /\ hd.metadata.total_checks = 2
  /\ Len(hd.history) >= 1
  /\ hd.current.public_ip = "1.2.3.4"
  /\ hd.current.last_notification_sent # NoTime
  /\ \E i \in 1..Len(hd.history) : hd.history[i].public_ip = Sentinel
  /\ fs[history_file] = DocFile(hd)

\* C17: cleanup_old_records(keep_days) with keep_days > 0 leaves no record
\* older than now minus keep_days; when the records inside that window are no
\* more than max_records it leaves exactly them, in their order, and otherwise
\* only records of the window; it returns the number of records removed.
InWindow(h, kd) == SelectSeq(h, LAMBDA r : r.timestamp >= now - kd)
Records(h) == {h[i] : i \in 1..Len(h)}
CleanupArgs == KeepDaysArgs \cup {config.keep_days}
C17_CleanupRemovesOld ==
  [][\A kd \in CleanupArgs : (CleanupOldRecords(kd) /\ kd > 0) =>
       /\ \A r \in Records(hd'.history) : r.timestamp >= now - kd
       /\ Records(hd'.history) \subseteq Records(InWindow(hd.history, kd))
       /\ Len(InWindow(hd.history, kd)) <= config.max_records =>
            hd'.history = InWindow(hd.history, kd)
       /\ last'.count = Len(hd.history) - Len(hd'.history)]_vars
C17_Witness ==
  /\ last.op = "cleanup_old_records"
  /\ last.keep_days = 1
  /\ last.count = 1
  /\ Len(hd.history) = 2
  /\ hd.history[1].timestamp = now - 1
  /\ hd.history[2].timestamp = now
  /\ hd.metadata.total_checks = 3

\* C18: when more than max_records records are left after the age filter,
\* cleanup keeps exactly max_records of them and no record newer than
\* one it keeps is dropped; recording more than max_records checks in a row
\* (none of them older than the window) leaves exactly max_records records,
\* none of them older than a record that was dropped.
Oldest(h) == CHOOSE m \in {r.timestamp : r \in Records(h)} :
               \A r \in Records(h) : m <= r.timestamp
KeepsNewest(kept, before, k) ==
  /\ Len(kept) = k
  /\ Records(kept) \subseteq Records(before)
  /\ \A r \in Records(before) :
       r.timestamp > Oldest(kept) => r \in Records(kept)
CapOnCleanup ==
  \A kd \in CleanupArgs :
    (CleanupOldRecords(kd) /\ kd > 0
       /\ Len(InWindow(hd.history, kd)) > config.max_records) =>
      KeepsNewest(hd'.history, InWindow(hd.history, kd), config.max_records)
RecordedInRow ==
  /\ last'.op = "record_ip_check"
  /\ calls' = calls + 1
  /\ last'.ok
  /\ fresh
  /\ calls' > config.max_records
  /\ hd.metadata.created_at >= now - config.keep_days
CapOnRecord ==
  /\ Len(hd'.history) = config.max_records
  /\ \A r \in Records(hd.history) :
       r.timestamp > Oldest(hd'.history) => r \in Records(hd'.history)
  /\ now > Oldest(hd'.history) =>
       \E r \in Records(hd'.history) :
         r.timestamp = now /\ r.public_ip = last'.public_ip
  /\ \A r \in Records(hd'.history) :
       \/ r \in Records(hd.history)
       \/ r.timestamp = now /\ r.public_ip = last'.public_ip
C18_CapKeepsMostRecent ==
  [][CapOnCleanup /\ (RecordedInRow => CapOnRecord)]_vars

\* C18, amended: the same, the records in a row being recorded with
\* auto_cleanup enabled and keep_days greater than 0.
C18_CapKeepsMostRecentWhenCleaning ==
  [][/\ CapOnCleanup
     /\ (RecordedInRow /\ config.auto_cleanup /\ config.keep_days > 0) =>
          CapOnRecord]_vars
C18_Witness ==
  /\ last.op = "record_ip_check"
  /\ last.ok
  /\ config.auto_cleanup
  /\ config.keep_days > 0
  /\ calls = 3
  /\ removed = 1
  /\ Len(hd.history) = config.max_records
  /\ hd.history[1].timestamp = 1
  /\ hd.history[2].timestamp = 0
  /\ now = 1

\* C19: with auto_cleanup enabled the history holds at most max_records
\* entries after every successful record_ip_check, whatever keep_days is.
C19_HistoryBounded ==
  (last.op = "record_ip_check" /\ last.ok /\ config.auto_cleanup) =>
    Len(hd.history) <= config.max_records

\* C19, amended: the same for every keep_days greater than 0.
C19_HistoryBoundedWhenPositive ==
  (/\ last.op = "record_ip_check"
   /\ last.ok
   /\ config.auto_cleanup
   /\ config.keep_days > 0) =>
    Len(hd.history) <= config.max_records
C19_Witness ==
  /\ last.op = "record_ip_check"
  /\ last.ok
  /\ config.auto_cleanup
  /\ config.keep_days > 0
  /\ hd.metadata.total_checks = 3
  /\ Len(hd.history) = config.max_records
  /\ now = 0

\* C20: cleanup_old_records with keep_days 0 or negative returns 0 and leaves
\* the history as it was.
C20_NonPositiveKeepDaysIsNoOp ==
  [][\A kd \in CleanupArgs : (CleanupOldRecords(kd) /\ kd <= 0) =>
       /\ last'.count = 0
       /\ hd'.history = hd.history]_vars
C20_Witness ==
  /\ last.op = "cleanup_old_records"
  /\ last.keep_days = 0
  /\ last.count = 0
  /\ Len(hd.history) > config.max_records
  /\ \E r \in Records(hd.history) : r.timestamp < now

\* C21: after every record_ip_check and every cleanup the history is in
\* insertion order, its timestamps non-decreasing from the first element to
\* the last, and every record in it is a record that was in it before or the
\* one just appended, unmodified.
Ordered(h) ==
  \A i, j \in 1..Len(h) : i < j => h[i].timestamp <= h[j].timestamp
C21_HistoryKeepsInsertionOrder ==
  [][/\ Ordered(hd'.history)
     /\ \A r \in Records(hd'.history) :
          \/ r \in Records(hd.history)
          \/ /\ last'.op = "record_ip_check"
             /\ r.timestamp = now
             /\ r.public_ip = last'.public_ip]_vars

\* C22: the record a record_ip_check appends has ip_changed true exactly when
\* its public IP is a real address (not empty, not the sentinel) that differs
\* from the current public IP the store held before the call, a store with no
\* IP recorded included; it carries previous_public_ip, equal to that earlier
\* IP, exactly when ip_changed is true and the store held a real address.
Appended ==
  IF Len(hd'.history) = Len(hd.history) + 1
  THEN {hd'.history[Len(hd'.history)]}
  ELSE Records(hd'.history) \ Records(hd.history)
RecordStep == last'.op = "record_ip_check" /\ calls' = calls + 1
C22_IpChangedAgainstPriorIp ==
  [][RecordStep =>
       \A r \in Appended :
         /\ r.public_ip = last'.public_ip
         /\ r.ip_changed <=>
              (NonSentinel(r.public_ip) /\ r.public_ip # hd.current.public_ip)
         /\ r.previous_public_ip =
              IF r.ip_changed /\ NonSentinel(hd.current.public_ip)
              THEN hd.current.public_ip ELSE Absent]_vars
C22_Witness ==
  /\ last.op = "record_ip_check"
  /\ Len(hd.history) = 3
  /\ hd.history[1].ip_changed
  /\ hd.history[1].previous_public_ip = Absent
  /\ hd.history[2].public_ip = Sentinel
  /\ ~hd.history[2].ip_changed
  /\ hd.history[3].public_ip = "fe80::1a"
  /\ hd.history[3].ip_changed
  /\ hd.history[3].previous_public_ip = "1.2.3.4"
  /\ hd.current.public_ip = "fe80::1a"

\* C23: record_ip_check changes current.public_ip and current.last_updated
\* only when the observed public IP is a real address (and then to that
\* address and the time of the check), and current.local_ip only when the
\* observed local IP is a real address; so when, of three checks in a row, the
\* first and the third observe the same public IP and the second observes
\* none, the record of the third has ip_changed false.
CallLog == fresh /\ removed = 0 /\ Len(hd.history) = calls
C23_CurrentKeepsLastKnownGood ==
  [][RecordStep =>
       /\ IF NonSentinel(last'.public_ip)
          THEN /\ hd'.current.public_ip = last'.public_ip
               /\ hd'.current.last_updated = now
          ELSE /\ hd'.current.public_ip = hd.current.public_ip
               /\ hd'.current.last_updated = hd.current.last_updated
       /\ hd'.current.local_ip =
            IF NonSentinel(last'.local_ip) THEN last'.local_ip
            ELSE hd.current.local_ip
       /\ (/\ CallLog
           /\ calls >= 2
           /\ ~NonSentinel(hd.history[calls].public_ip)
           /\ NonSentinel(last'.public_ip)
           /\ hd.history[calls - 1].public_ip = last'.public_ip) =>
            \A r \in Appended : ~r.ip_changed]_vars
C23_Witness ==
  /\ last.op = "record_ip_check"
  /\ CallLog
  /\ calls = 3
  /\ hd.history[1].public_ip = "1.2.3.4"
  /\ hd.history[1].ip_changed
  /\ hd.history[2].public_ip = Sentinel
  /\ hd.history[2].timestamp > hd.history[1].timestamp
  /\ hd.history[3].public_ip = "1.2.3.4"
  /\ ~hd.history[3].ip_changed
  /\ hd.current.public_ip = "1.2.3.4"
  /\ hd.current.last_updated = hd.history[3].timestamp
  /\ hd.current.last_updated > hd.history[2].timestamp

\* C24: on a store created empty, after any sequence of successful
\* record_ip_check calls, total_ip_changes is the number of calls whose record
\* had ip_changed true, total_notifications_sent the number of calls with
\* notification_sent true, last_change_date the timestamp of the latest record
\* with ip_changed true, check_frequency[m] the number of calls of mode m for
\* each of the three known modes, and a call of an unknown mode adds to
\* total_checks and to no check_frequency entry.  Stated on the stores whose
\* history is the full log of the calls, and as the change each call makes.
Indices(h) == 1..Len(h)
ChangedAt(h) == {i \in Indices(h) : h[i].ip_changed}
LatestChange(h) ==
  IF ChangedAt(h) = {} THEN NoTime
  ELSE h[CHOOSE i \in ChangedAt(h) : \A j \in ChangedAt(h) : j <= i].timestamp
StatisticsCountLog ==
  LET h == hd.history
      st == hd.statistics
  IN /\ hd.metadata.total_checks = Len(h)
     /\ st.total_ip_changes = Cardinality(ChangedAt(h))
     /\ st.total_notifications_sent =
          Cardinality({i \in Indices(h) : h[i].notification_sent})
     /\ st.last_change_date = LatestChange(h)
     /\ DOMAIN st.check_frequency = KnownModes
     /\ \A m \in KnownModes :
          st.check_frequency[m] = Cardinality({i \in Indices(h) : h[i].mode = m})
StatisticsStep ==
  LET st == hd.statistics
      st2 == hd'.statistics
  IN /\ hd'.metadata.total_checks = hd.metadata.total_checks + 1
     /\ st2.total_notifications_sent =
          st.total_notifications_sent + (IF last'.notification_sent THEN 1 ELSE 0)
     /\ DOMAIN st2.check_frequency = DOMAIN st.check_frequency
     /\ \A m \in DOMAIN st.check_frequency :
          st2.check_frequency[m] =
            st.check_frequency[m] + (IF m = last'.mode THEN 1 ELSE 0)
     /\ \A r \in Appended :
          /\ st2.total_ip_changes =
               st.total_ip_changes + (IF r.ip_changed THEN 1 ELSE 0)
          /\ st2.last_change_date =
               IF r.ip_changed THEN r.timestamp ELSE st.last_change_date
C24_StatisticsCountCalls ==
  [][(RecordStep /\ last'.ok) =>
       /\ StatisticsStep
       /\ CallLog' => StatisticsCountLog']_vars
C24_Witness ==
  /\ last.op = "record_ip_check"
  /\ last.mode = "weekly"
  /\ CallLog
  /\ calls = 3
  /\ hd.metadata.total_checks = 3
  /\ hd.statistics.check_frequency["scheduled"] = 1
  /\ hd.statistics.check_frequency["manual"] = 1
  /\ hd.statistics.check_frequency["test"] = 0
  /\ hd.statistics.total_ip_changes = 2
  /\ hd.statistics.total_notifications_sent = 1
  /\ hd.statistics.last_change_date = 1
  /\ now = 2

\* C25: has_ip_changed of the empty string and of the sentinel is false in
\* every state of the store: empty, holding an address, or holding a current
\* public IP that is None, empty or the sentinel itself.
C25_NoChangeForUnavailable ==
  alive => /\ ~has_ip_changed(hd, "")
           /\ ~has_ip_changed(hd, Sentinel)
C25_Witness ==
  /\ alive
  /\ ~fresh
  /\ hd.current.public_ip = Sentinel
  /\ last.op = "record_ip_check"
  /\ last.public_ip = Sentinel
  /\ Len(hd.history) = 2
  /\ get_last_public_ip(hd) = None

\* C26: when every one of the N threads that called record_ip_check on one
\* manager has returned, metadata.total_checks is N.
C26_NoLostUpdate ==
  (\A th \in Threads : threads[th].pc = "done") =>
    hd.metadata.total_checks = MaxThreads

\* C27: with two writers saving to one store path at once, the file at the
\* store path is a complete document at every moment.
C27_StoreFileAlwaysWhole ==
  /\ exists(history_file)
  /\ fs[history_file].kind = "doc"

\* C28: what a check writes to history and statistics when its notification
\* could not be delivered differs from what a check with the same lookups
\* writes when its notification is skipped by policy: no task whose delivery
\* failed leaves the history and the store as a task that skipped would.
DeliveryFailed(t) ==
  t.checked /\ NonSentinel(t.public_ip) /\ t.sent /\ ~t.success
SkippedByPolicy(t) ==
  t.checked /\ NonSentinel(t.public_ip) /\ ~t.sent /\ t.success
C28_FailedDeliveryDiffersFromSkipped ==
  [][(ops' = ops + 1 /\ DeliveryFailed(task')) =>
       ~ \E lo \in LocalOutcomes, po \in PublicOutcomes, wh \in WebhookOutcomes :
            /\ SkippedByPolicy(_execute_ip_check("scheduled", lo, po, wh))
            /\ check_and_update_history(legacy, lo, po) = legacy'
            /\ hd' = hd
            /\ fs' = fs]_vars

\* C29: get_all_ips does not raise when lookups fail: a check whose lookups
\* failed got the sentinel for each address that was not determined, no
\* exception, and, when both failed, a non-empty list of errors.
C29_GetAllIpsNeverRaises ==
  result.called =>
    /\ result.error = ""
    /\ result.resolved = None => result.public_ip = Sentinel
    /\ (result.lookups_failed /\ result.using_new_history) =>
         /\ result.local_ip = Sentinel
         /\ result.warnings > 0

\* C30: _send_message issues at most retry_attempts POST requests; it
\* returns True at the first 204 response, a 429 before it having been
\* retried; and it raises WebhookError only when its retry attempts are used
\* up.
C30_SendMessageRetries ==
  /\ sender.posts <= sender.retry_attempts
  /\ sender.pc = "returned" =>
       /\ sender.log[Len(sender.log)] = "204"
       /\ \A i \in 1..(Len(sender.log) - 1) : sender.log[i] # "204"
  /\ (sender.pc = "loop" /\ sender.log # <<>>) =>
       sender.log[Len(sender.log)] # "204"
  /\ sender.pc = "raised" =>
       /\ sender.raised = "WebhookError"
       /\ sender.attempt = sender.retry_attempts

\* C31: at most one thread is inside the body of _execute_ip_check of one
\* SchedulerManager; is_executing is true only while a check holds
\* execution_lock; and when a check has ended, however its body ended,
\* is_executing is false.
InCheck(th) == daemon.pc[th] \in {"locked", "body", "finally", "release"}
C31_OneCheckAtATime ==
  /\ \A a, b \in Threads : (InCheck(a) /\ InCheck(b)) => a = b
  /\ daemon.is_executing =>
       \E th \in Threads : daemon.lock = th /\ daemon.pc[th] \in {"body", "finally"}
  /\ \A th \in Threads :
       (daemon.pc[th] \in {"release", "idle"} /\ daemon.end[th] # "") =>
         (daemon.is_executing => \E o \in Threads : o # th /\ daemon.lock = o)
C31_Witness ==
  \E a, b \in Threads :
    /\ daemon.pc[a] = "release" /\ daemon.end[a] = "exception"
    /\ daemon.pc[b] = "waiting"
    /\ ~daemon.is_executing

\* C32: a signal that arrives while the daemon loop runs leads to stop()
\* returning and the process exiting, with is_running false and the
\* scheduled jobs cleared.
C32_StopReturns ==
  (daemon.handler = "stop") ~>
    (daemon.handler = "exited" /\ ~daemon.is_running /\ ~daemon.jobs)

\* C33: get_public_ip makes at most (services x retry_attempts) requests; it
\* returns at the first answer that carries an address; and it raises
\* NetworkError, and nothing else, only when every service has failed on all
\* of its retry attempts, whatever the failures were.
C33_PublicIpTriesEveryService ==
  /\ lookup.requests <= lookup.services * lookup.retry_attempts
  /\ lookup.pc = "returned" <=>
       (lookup.requests > 0 /\ lookup.answer = "200 address")
  /\ lookup.pc = "raised" =>
       /\ lookup.raised = "NetworkError"
       /\ lookup.requests = lookup.services * lookup.retry_attempts

\* C34: no notification that carries an empty or sentinel public IP is
\* posted.  A scheduler task whose public IP is the sentinel fails without
\* sending, a task that sent carried an address, and
\* send_minecraft_server_notification called with a missing, empty or
\* sentinel public_ip raises MessageFormatError and posts nothing.
C34_NoNotificationWithoutAddress ==
  /\ task.sent => NonSentinel(task.public_ip)
  /\ (task.checked /\ task.public_ip = Sentinel) =>
       (~task.sent /\ ~task.success)
  /\ (notice.called /\ ~NonSentinel(notice.public_ip)) =>
       /\ ~notice.posted
       /\ ~notice.returned
       /\ notice.raised = "MessageFormatError"
  /\ notice.posted => NonSentinel(notice.public_ip)
C34_Witness ==
  /\ task.mode = "manual" /\ task.checked /\ task.public_ip = Sentinel
  /\ notice.called /\ notice.public_ip = ""
  /\ posts = 0

\* C35: the history record a check_ip_with_history call in a mode other than
\* test appends carries, as ip_changed, the has_changed the call returned and,
\* as notification_sent, the should_notify it returned.
C35_RecordAgreesWithResult ==
  [][(CheckStep /\ result'.mode # "test") =>
       \A r \in Appended :
         /\ r.ip_changed = result'.has_changed
         /\ r.notification_sent = result'.should_notify]_vars
C35_Witness ==
  /\ result.called
  /\ result.mode = "manual"
  /\ result.using_new_history
  /\ ~result.has_changed
  /\ result.should_notify
  /\ Len(hd.history) = 2
  /\ hd.history[2].mode = "manual"
  /\ ~hd.history[2].ip_changed
  /\ hd.history[2].notification_sent
  /\ hd.history[1].ip_changed

\* C36: a scheduled check that found a new address has, when it returns,
\* already made it the store's current public IP and counted its
\* notification, before anything is delivered; the delivery, failed or not,
\* leaves the store alone; so every later scheduled check that observes the
\* address of an earlier scheduled change returns should_notify false.
ScheduledCheckStep ==
  /\ CheckStep
  /\ result'.mode = "scheduled"
  /\ result'.using_new_history
  /\ result'.error = ""
ChangeNotedBefore(ip) ==
  \E r \in Records(hd.history) :
    r.mode = "scheduled" /\ r.ip_changed /\ r.notification_sent /\ r.public_ip = ip
C36_LostNotificationStaysLost ==
  [][(ScheduledCheckStep /\ ChangeNotedBefore(result'.public_ip)) =>
       ~result'.should_notify]_vars

\* C36, amended: the same, the later scheduled checks being those that observe
\* the address while it is still the store's current public IP.
C36_NoRearmWhileCurrent ==
  [][/\ (ScheduledCheckStep /\ result'.has_changed) =>
          /\ hd'.current.public_ip = result'.public_ip
          /\ hd'.statistics.total_notifications_sent =
               hd.statistics.total_notifications_sent + 1
          /\ notice' = notice
          /\ posts' = posts
     /\ notice' # notice => (hd' = hd /\ fs' = fs)
     /\ (ScheduledCheckStep /\ ChangeNotedBefore(result'.public_ip)
           /\ hd.current.public_ip = result'.public_ip) =>
          ~result'.should_notify]_vars
C36_Witness ==
  /\ ops = 2
  /\ notice.called /\ notice.raised = "WebhookError"
  /\ result.mode = "scheduled"
  /\ result.public_ip = notice.public_ip
  /\ ~result.should_notify
  /\ Len(hd.history) = 2
  /\ hd.history[1].mode = "scheduled" /\ hd.history[1].notification_sent
  /\ hd.history[1].public_ip = notice.public_ip

\* C37: a successful check_and_update reports changed true when the legacy
\* history holds no record, and otherwise exactly when the local or the
\* public address it observed differs from the last record saved; and it
\* appends its observation to the legacy history.
UpdateStep == ops' = ops + 1 /\ update'.called
C37_LegacyComparesAndAppends ==
  [][(UpdateStep /\ update'.success) =>
       /\ update'.changed <=>
            \/ legacy = <<>>
            \/ update'.local_ip # legacy[Len(legacy)].local_ip
            \/ update'.public_ip # legacy[Len(legacy)].public_ip
       /\ Len(legacy') = Len(legacy) + 1
       /\ legacy'[Len(legacy')] = [local_ip |-> update'.local_ip,
                                   public_ip |-> update'.public_ip,
                                   timestamp |-> update'.timestamp]]_vars

====
